---- MODULE Spec2Model ----
(***************************************************************************)
(* Model of the wslsync synchronisation engine (src/wslsync/sync.py).      *)
(*                                                                         *)
(* A directory tree is a function from the paths that exist under a root   *)
(* to what is there: "dir" for a directory, anything else is the content   *)
(* (and modification time) of a regular file.  A path is the sequence of   *)
(* its components, relative to the root; entries of the configuration are  *)
(* strings, parsed and joined the way pathlib does it.  A path the engine  *)
(* writes is relative to dest_root, ".." components kept; one that does    *)
(* not start with dest_root starts with the part "/", the directory the    *)
(* two roots lie in.                                                       *)
(***************************************************************************)
EXTENDS Integers, Sequences, FiniteSets, TLC

VARIABLES
    windows_base,   \* what config.windows_base denotes: a RootKinds value
    wsl2_base,      \* what config.wsl2_base denotes: a RootKinds value
    sameRoot,       \* both roots denote one and the same directory
    files,          \* config.files: the ordered entry strings
    src,            \* the tree under windows_base
    dst,            \* the tree under wsl2_base
    pc,             \* position of the running call
    err,            \* the exception the call raised, "none" if none
    idx,            \* copy_files: index of the entry the loop is at
    copied_files,   \* copy_files: the list it builds and returns
    keep_files,     \* cleanup_destination: its argument
    deleted_files,  \* cleanup_destination: the list it builds and returns
    phases,         \* history: the phases entered, in order, each with the
                    \* exception it raised ("none" if it returned)
    attempted,      \* history: indices of the entries copy_files looked at
    log,            \* history: every mutation of the file system, and the
                    \* operations it refused
    dst0,           \* history: the destination tree when the call started
    src0,           \* history: the source tree when the call started
    run,            \* history: "first" or "second" call
    after1,         \* history: regular files under dest_root after the first call
    faults,         \* environment: the operations the file system refuses
    source_files,   \* get_source_files: the list it builds and returns
    dest_files,     \* get_destination_files: the list it builds and returns
    argv,           \* main: the command line, as parse_args sees it
    config_file,    \* the configuration file: whether it exists, and its text
    config,         \* the WSLSyncConfig that parse_config builds
    errmsg,         \* the message of the exception in err
    calls,          \* history: the functions main and its commands called
    exit_code,      \* <<n>> once main returned n, <<>> before that
    escaped,        \* the exception that left main, "none" if none
    report,         \* dry run: the "Would copy" and "Would delete" lines
    call            \* is_path_safe, create_directory_structure: the
                    \* arguments and what was returned

\* the state of the engine and of the file system
engine == <<windows_base, wsl2_base, sameRoot, files, src, dst, pc, err, idx,
            copied_files, keep_files, deleted_files, phases, attempted, log,
            dst0, src0, run, after1>>

\* the state around the engine: the environment, the command line, the
\* configuration file and the helper calls
outer == <<faults, source_files, dest_files, argv, config_file, config, errmsg,
           calls, exit_code, escaped, report, call>>

vars == <<engine, outer>>

----------------------------------------------------------------------------
(* Bounds and input universes *)

MaxEntries == 2

\* how many times another process writes under dest_root during one sync()
MaxOtherWrites == 1

TopNames == {"a", "ab"}
ChildNames == {"a"}

\* the entry strings a configuration is drawn from
EntryStrings == {"a", "ab", "a/a", "ab/a"}

\* the paths an initial tree may contain
PathUniverse ==
    {<<n>> : n \in TopNames} \cup {<<n, c>> : n \in TopNames, c \in ChildNames}

RootKinds == {"unset", "missing", "file", "noaccess", "dir"}

EmptyTree == [p \in {} |-> "dir"]

----------------------------------------------------------------------------
(* Paths and trees *)

IsPrefix(p, q) == Len(p) <= Len(q) /\ SubSeq(q, 1, Len(p)) = p

Parent(p) == SubSeq(p, 1, Len(p) - 1)

\* Path.exists(), Path.is_dir(), Path.is_file() below a root that is a directory
Exists(t, p) == p = <<>> \/ p \in DOMAIN t
IsDir(t, p) == p = <<>> \/ (p \in DOMAIN t /\ t[p] = "dir")
IsFile(t, p) == p \in DOMAIN t /\ t[p] # "dir"

\* p.rglob("*"): everything strictly below p
Under(t, p) == {q \in DOMAIN t : IsPrefix(p, q) /\ q # p}

\* p.iterdir()
Children(t, p) == {q \in DOMAIN t : Len(q) = Len(p) + 1 /\ IsPrefix(p, q)}

\* the regular files of a tree
Files(t) == {p \in DOMAIN t : t[p] # "dir"}

WellFormed(t) ==
    \A p \in DOMAIN t : Len(p) > 1 => (Parent(p) \in DOMAIN t /\ t[Parent(p)] = "dir")

\* every tree over PathUniverse whose regular files all hold content c
Trees(c) ==
    {t \in UNION {[S -> {"dir", c}] : S \in SUBSET PathUniverse} : WellFormed(t)}

Restrict(t, S) == [p \in S |-> t[p]]

\* t with the nodes of u added or replaced
Overlay(t, u) ==
    [p \in DOMAIN t \cup DOMAIN u |-> IF p \in DOMAIN u THEN u[p] ELSE t[p]]

\* the proper non-empty prefixes of p: Path.parents, up to the root exclusive
Ancestors(p) == {SubSeq(p, 1, k) : k \in 1..(Len(p) - 1)}

----------------------------------------------------------------------------
(* Strings and pathlib *)

StartsWith(s, prefix) ==
    Len(prefix) <= Len(s) /\ SubSeq(s, 1, Len(prefix)) = prefix

RECURSIVE SplitFrom(_, _, _)
\* the "/"-separated pieces of s from position i on, cur being the piece so far
SplitFrom(s, i, cur) ==
    IF i > Len(s) THEN <<cur>>
    ELSE IF SubSeq(s, i, i) = "/" THEN <<cur>> \o SplitFrom(s, i + 1, "")
    ELSE SplitFrom(s, i + 1, cur \o SubSeq(s, i, i))

RECURSIVE DropEmpty(_)
DropEmpty(parts) ==
    IF parts = <<>> THEN <<>>
    ELSE IF Head(parts) \in {"", "."} THEN DropEmpty(Tail(parts))
    ELSE <<Head(parts)>> \o DropEmpty(Tail(parts))

\* Path(entry).parts: the components pathlib keeps of an entry string (empty
\* and "." components are dropped, ".." stays, an absolute path starts with
\* the part "/")
ParseParts(entry) ==
    (IF StartsWith(entry, "/") THEN <<"/">> ELSE <<>>)
    \o DropEmpty(SplitFrom(entry, 1, ""))

RECURSIVE Str(_)
\* str(rel_path): the components joined by "/"
Str(p) ==
    IF p = <<>> THEN "."
    ELSE IF Len(p) = 1 THEN p[1]
    ELSE p[1] \o "/" \o Str(Tail(p))

RECURSIVE SetToSeq(_)
\* the elements of S in some order (a directory listing has no specified order)
SetToSeq(S) ==
    IF S = {} THEN <<>>
    ELSE LET x == CHOOSE y \in S : TRUE IN <<x>> \o SetToSeq(S \ {x})

RECURSIVE Rglob(_, _), RglobEach(_, _)
\* list(p.rglob("*")): the entries of p, then those of each subdirectory in
\* turn, so that a directory always comes before what it contains
Rglob(t, p) ==
    LET kids == SetToSeq(Children(t, p)) IN kids \o RglobEach(t, kids)

RglobEach(t, ks) ==
    IF ks = <<>> THEN <<>>
    ELSE (IF t[Head(ks)] = "dir" THEN Rglob(t, Head(ks)) ELSE <<>>)
         \o RglobEach(t, Tail(ks))

RECURSIVE SelectFiles(_, _)
\* [f for f in listing if f.is_file()]
SelectFiles(t, listing) ==
    IF listing = <<>> THEN <<>>
    ELSE (IF IsFile(t, Head(listing)) THEN <<Head(listing)>> ELSE <<>>)
         \o SelectFiles(t, Tail(listing))

\* c is a character str.strip() removes and \s matches
IsSpace(c) == c \in {" ", "\t", "\n", "\r"}

Min(S) == CHOOSE x \in S : \A y \in S : x <= y
Max(S) == CHOOSE x \in S : \A y \in S : y <= x

\* s.strip(): from the first to the last character that is no space
Strip(s) ==
    LET solid == {i \in 1..Len(s) : ~IsSpace(SubSeq(s, i, i))}
    IN  IF solid = {} THEN "" ELSE SubSeq(s, Min(solid), Max(solid))

\* pat in s
Contains(s, pat) ==
    \E i \in 1..(Len(s) - Len(pat) + 1) : SubSeq(s, i, i + Len(pat) - 1) = pat

UpperCase == "ABCDEFGHIJKLMNOPQRSTUVWXYZ"
LowerCase == "abcdefghijklmnopqrstuvwxyz"

RECURSIVE Lower(_)
\* s.lower()
Lower(s) ==
    IF Len(s) = 0 THEN ""
    ELSE LET c == SubSeq(s, 1, 1)
             at == {i \in 1..Len(UpperCase) : SubSeq(UpperCase, i, i) = c}
         IN  (IF at = {} THEN c
              ELSE LET i == CHOOSE j \in at : TRUE IN SubSeq(LowerCase, i, i))
             \o Lower(SubSeq(s, 2, Len(s)))

\* str(Path(raw)): empty and "." components go, so does a trailing "/"; the
\* path of no component at all is written "."
PathStr(raw) ==
    LET parts == DropEmpty(SplitFrom(raw, 1, ""))
    IN  IF StartsWith(raw, "/")
        THEN "/" \o (IF parts = <<>> THEN "" ELSE Str(parts))
        ELSE Str(parts)

Range(s) == {s[i] : i \in 1..Len(s)}

----------------------------------------------------------------------------
(* Values of the variables before anything has happened *)

\* nothing is refused by the file system
NoFaults ==
    [unlink |-> <<>>, unlistable |-> {}, unremovable |-> {},
     unreadable |-> {}, readonly |-> {}, foreign |-> {}]

\* WSLSyncConfig(): the roots unset, no entries
NoConfig == [windows_base |-> "None", wsl2_base |-> "None", files |-> <<>>]

NoArgs == [ok |-> TRUE, version |-> FALSE, validate_config |-> FALSE,
           dry_run |-> FALSE]

\* no configuration file: written is what a file was composed of
NothingWritten == [lines |-> <<>>, entries |-> <<>>, multiline |-> FALSE]

NoFile == [exists |-> FALSE, text |-> "", written |-> NothingWritten]

NoReport == [copy |-> <<>>, delete |-> <<>>]

\* Path(): the relative path of no component
NoPath == [abs |-> FALSE, parts |-> <<>>]

NoCall == [path |-> NoPath, base_path |-> NoPath, result |-> "none"]

\* main has not returned: no exit code yet
NotReturned == <<>>

----------------------------------------------------------------------------
(* File-system operations.  Each yields the tree it leaves, what happened  *)
(* to the file system (events: the mutations made and the operation        *)
(* refused), the exception it raised ("none" if none) and its message.     *)
(* They work on the directory the two roots lie in: a path is written from *)
(* there, with the ".." components its entry string had, and the operating *)
(* system finds the place it names.                                        *)

Ev(o, p) == [op |-> o, path |-> p]

\* config.windows_base and config.wsl2_base, written from the directory they
\* lie in (same: both name one directory)
WindowsBase == <<"w">>
Wsl2Base(same) == IF same THEN <<"w">> ELSE <<"d">>

\* the tree u hung below the directory root
Hang(root, u) == [p \in {root \o q : q \in DOMAIN u} |-> u[SubSeq(p, 2, Len(p))]]

\* the directory the roots lie in, s being below source_root and t below
\* dest_root
World(s, t, same) ==
    Overlay([p \in {WindowsBase, Wsl2Base(same)} |-> "dir"],
            IF same THEN Hang(WindowsBase, t)
            ELSE Overlay(Hang(WindowsBase, s), Hang(Wsl2Base(same), t)))

\* what lies below the directory root in the tree w
Below(w, root) ==
    [p \in {SubSeq(q, 2, Len(q)) : q \in {x \in DOMAIN w : Len(x) > 1 /\ x[1] = root[1]}}
       |-> w[root \o p]]

\* base / path: an absolute path replaces the base
Slash(base, path) ==
    IF path # <<>> /\ path[1] = "/" THEN Tail(path) ELSE base \o path

\* a path of the directory the roots lie in, as the engine writes it: relative
\* to dest_root when it starts with it, from "/" otherwise
FromDest(p, same) ==
    IF IsPrefix(Wsl2Base(same), p) THEN SubSeq(p, 2, Len(p)) ELSE <<"/">> \o p

\* str(path) of a path of the directory the roots lie in
Text(p) == IF p = <<>> THEN "/" ELSE "/" \o Str(p)

RECURSIVE Locate(_, _, _)
\* the place the operating system finds for the components parts taken from
\* the directory cur: ".." is the directory above, and every component but
\* the last has to be a directory (found tells whether that held)
Locate(t, cur, parts) ==
    IF parts = <<>> THEN [found |-> TRUE, path |-> cur]
    ELSE IF ~IsDir(t, cur) THEN [found |-> FALSE, path |-> cur]
    ELSE Locate(t, IF Head(parts) = ".." THEN Parent(cur) ELSE Append(cur, Head(parts)),
                Tail(parts))

Place(t, p) == Locate(t, <<>>, p).path

\* Path.exists(), Path.is_dir(), Path.is_file() of a path that may hold ".."
ExistsAt(t, p) == Locate(t, <<>>, p).found /\ Exists(t, Place(t, p))
IsDirAt(t, p) == Locate(t, <<>>, p).found /\ IsDir(t, Place(t, p))
IsFileAt(t, p) == Locate(t, <<>>, p).found /\ IsFile(t, Place(t, p))

\* what the file system refuses the process: to read the source file or
\* directory p, to make or remove an entry of the destination directory d, to
\* change the mode of the destination directory d
Unreadable(p) == \E q \in faults.unreadable : p = WindowsBase \o q
ReadOnly(d) == \E q \in faults.readonly : d = Wsl2Base(sameRoot) \o q
Foreign(d) == \E q \in faults.foreign : d = Wsl2Base(sameRoot) \o q

RECURSIVE Reverse(_)
Reverse(s) == IF s = <<>> THEN <<>> ELSE Append(Reverse(Tail(s)), Head(s))

RECURSIVE RemoveEach(_, _)
\* the entries of listing are removed one after the other; the first one the
\* file system refuses ends it with PermissionError
RemoveEach(t, listing) ==
    IF listing = <<>> THEN [tree |-> t, events |-> {}, err |-> "none"]
    ELSE IF ReadOnly(Parent(Head(listing)))
    THEN [tree |-> t, events |-> {Ev("refused", Head(listing))},
          err |-> "PermissionError"]
    ELSE RemoveEach(Restrict(t, DOMAIN t \ {Head(listing)}), Tail(listing))

\* shutil.rmtree(p) of an existing directory p: what it contains goes before
\* the directory itself
RmTree(t, p) ==
    LET r == RemoveEach(t, Append(Reverse(Rglob(t, p)), p))
    IN  [tree |-> r.tree,
         events |-> r.events \cup (IF r.tree = t THEN {} ELSE {Ev("rmtree", p)}),
         err |-> r.err]

RECURSIVE MakeDirsFrom(_, _, _, _)
\* the directories named by parts are made one after the other from the
\* directory cur on, those that are there being passed; a regular file on the
\* way and a directory that takes no new entry are errors, what was made
\* before stays
MakeDirsFrom(t, cur, parts, events) ==
    IF parts = <<>> THEN [tree |-> t, events |-> events, err |-> "none"]
    ELSE
    LET next == IF Head(parts) = ".." THEN Parent(cur) ELSE Append(cur, Head(parts))
    IN  IF IsFile(t, next)
        THEN [tree |-> t, events |-> events, err |-> "OSError"]
        ELSE IF IsDir(t, next)
        THEN MakeDirsFrom(t, next, Tail(parts), events)
        ELSE IF ReadOnly(cur)
        THEN [tree |-> t, events |-> events \cup {Ev("refused", next)},
              err |-> "PermissionError"]
        ELSE MakeDirsFrom(Overlay(t, [q \in {next} |-> "dir"]), next, Tail(parts),
                          events \cup {Ev("mkdir", next)})

\* os.makedirs / Path.mkdir(parents=True, exist_ok=True) of the directory d
MakeDirs(t, d) == MakeDirsFrom(t, <<>>, d, {})

\* file_path.parents
Parents(file_path) == {SubSeq(file_path, 1, k) : k \in 0..(Len(file_path) - 1)}

\* the loop of create_directory_structure over file_path.parents, made being
\* what mkdir left, base config.wsl2_base: the parents are compared with base
\* as they are written; a chmod the file system refuses is passed over.  An
\* exception of mkdir is raised again with the message of its class.
SecureParents(made, base, file_path) ==
    IF made.err # "none"
    THEN [tree |-> made.tree, events |-> made.events, err |-> made.err,
          msg |-> (IF made.err = "PermissionError"
                   THEN "Permission denied creating directory: "
                   ELSE "Failed to create directory: ")
                  \o Text(Parent(file_path))]
    ELSE [tree |-> made.tree,
          events |-> made.events
                     \cup {Ev(IF Foreign(d) THEN "skipped" ELSE "chmod", d)
                            : d \in {Place(made.tree, parent)
                                       : parent \in {p \in Parents(file_path) :
                                                       /\ ExistsAt(made.tree, p)
                                                       /\ p # base
                                                       /\ base \in Parents(p)}}},
          err |-> "none",
          msg |-> ""]

\* create_directory_structure(file_path), base being config.wsl2_base
create_directory_structure(t, base, file_path) ==
    SecureParents(MakeDirs(t, Parent(file_path)), base, file_path)

\* the exception the file branch raises for the exception e of copy2
CopyError(e, source_path, dest_path) ==
    (IF e = "PermissionError" THEN "Permission denied copying " ELSE "Failed to copy ")
    \o Text(source_path) \o " to " \o Text(dest_path)

\* shutil.copy2(source_path, dest_path) after create_directory_structure left
\* cds: the file found at from, holding content, is written at the place of
\* dest_path.  copy2 onto an existing directory copies into it under the
\* source's base name; when source and destination are one file it raises
\* shutil.SameFileError; it opens the source, then the destination.
Copy2(cds, from, content, source_path, dest_path) ==
    LET at == Place(cds.tree, dest_path)
        target == IF IsDir(cds.tree, at)
                  THEN Append(at, source_path[Len(source_path)])
                  ELSE at
        failed(e, refused) ==
            [tree |-> cds.tree, events |-> cds.events \cup refused, err |-> e,
             msg |-> CopyError(e, source_path, dest_path), copied |-> <<>>]
    IN  IF cds.err # "none"
        THEN [tree |-> cds.tree, events |-> cds.events, err |-> cds.err,
              msg |-> cds.msg, copied |-> <<>>]
        ELSE IF target = from THEN failed("OSError", {})
        ELSE IF Unreadable(from) THEN failed("PermissionError", {Ev("refused", from)})
        ELSE IF IsDir(cds.tree, target) THEN failed("OSError", {})
        ELSE IF ~Exists(cds.tree, target) /\ ReadOnly(Parent(target))
        THEN failed("PermissionError", {Ev("refused", target)})
        ELSE [tree |-> Overlay(cds.tree, [q \in {target} |-> content]),
              events |-> cds.events \cup {Ev("write", target)},
              err |-> "none",
              msg |-> "",
              copied |-> <<dest_path>>]

\* the file branch of copy_files: create_directory_structure, then
\* shutil.copy2(source_path, dest_path)
CopyFileEntry(t, base, source_path, dest_path) ==
    Copy2(create_directory_structure(t, base, dest_path), Place(t, source_path),
          t[Place(t, source_path)], source_path, dest_path)

\* the path under dest_path that q, a path under source_path, is copied to
Rebase(q, source_path, dest_path) ==
    dest_path \o SubSeq(q, Len(source_path) + 1, Len(q))

\* the paths of listing, found under source_path, written under dest_path
RebaseEach(listing, source_path, dest_path) ==
    IF listing = <<>> THEN <<>>
    ELSE [k \in 1..Len(listing) |-> Rebase(listing[k], source_path, dest_path)]

\* the exception the directory branch raises for the exception e
CopyDirError(e, source_path, dest_path) ==
    [err |-> e,
     msg |-> (IF e = "PermissionError" THEN "Permission denied copying directory "
              ELSE "Failed to copy directory ")
             \o Text(source_path) \o " to " \o Text(dest_path),
     copied |-> <<>>]

\* what copytree cannot read below the directory from: the files and
\* directories the file system refuses, and what lies in such a directory
Skipped(t, from) ==
    {r \in Under(t, from) :
        \E k \in (Len(from) + 1)..Len(r) : Unreadable(SubSeq(r, 1, k))}

\* what copytree copies of the tree t from the directory from to the directory
\* at: every file and directory it can read
Copied(t, from, at) ==
    [q \in {Rebase(r, from, at) : r \in Under(t, from) \ Skipped(t, from)} |->
        t[from \o SubSeq(q, Len(at) + 1, Len(q))]]

\* what happened when copy was written
Writes(copy) ==
    {Ev(IF copy[q] = "dir" THEN "mkdir" ELSE "write", q) : q \in DOMAIN copy}

\* the end of the directory branch, t2 being what copytree left at the
\* directory at: shutil.Error if something could not be read, else chmod of
\* the copied directories and the listing of the files
Finish(t2, events, refused, at, source_path, dest_path) ==
    IF refused # {}
    THEN [tree |-> t2, events |-> events \cup {Ev("refused", r) : r \in refused}]
         @@ CopyDirError("OSError", source_path, dest_path)
    ELSE [tree |-> t2,
          events |-> events
                     \cup {Ev("chmod", q)
                            : q \in {at} \cup {r \in Under(t2, at) : t2[r] = "dir"}},
          err |-> "none",
          msg |-> "",
          copied |-> RebaseEach(SelectFiles(t2, Rglob(t2, at)), at, dest_path)]

\* MakeTree with a directory that is there at dest_path taken as it is
MergeTree(rm, made, from, at, source_path, dest_path) ==
    IF from = at \/ made.err # "none" \/ IsFile(made.tree, at)
    THEN [tree |-> rm.tree, events |-> {}]
         @@ CopyDirError("OSError", source_path, dest_path)
    ELSE Finish(Overlay(Overlay(made.tree, [q \in {at} |-> "dir"]),
                        Copied(rm.tree, from, at)),
                made.events \cup Writes(Copied(rm.tree, from, at)),
                {}, at, source_path, dest_path)

\* shutil.copytree(source_path, dest_path) after rmtree left rm and the
\* directories above dest_path were made (made): it lists the source found at
\* from, makes the directory at, which must not be there, copies what it can
\* read and raises shutil.Error for the rest
MakeTree(rm, made, from, at, source_path, dest_path) ==
    IF ~ExistsAt(rm.tree, source_path)
    THEN [tree |-> rm.tree, events |-> rm.events]
         @@ CopyDirError("OSError", source_path, dest_path)
    ELSE IF Unreadable(from)
    THEN [tree |-> rm.tree, events |-> rm.events \cup {Ev("refused", from)}]
         @@ CopyDirError("PermissionError", source_path, dest_path)
    ELSE IF made.err # "none"
    THEN [tree |-> made.tree, events |-> rm.events \cup made.events]
         @@ CopyDirError(made.err, source_path, dest_path)
    ELSE IF Exists(made.tree, at)
    THEN [tree |-> made.tree, events |-> rm.events \cup made.events]
         @@ CopyDirError("OSError", source_path, dest_path)
    ELSE IF ReadOnly(Parent(at))
    THEN [tree |-> made.tree,
          events |-> rm.events \cup made.events \cup {Ev("refused", at)}]
         @@ CopyDirError("PermissionError", source_path, dest_path)
    ELSE Finish(Overlay(Overlay(made.tree, [q \in {at} |-> "dir"]),
                        Copied(rm.tree, from, at)),
                rm.events \cup made.events \cup {Ev("mkdir", at)}
                \cup Writes(Copied(rm.tree, from, at)),
                {x \in Skipped(rm.tree, from) : Unreadable(x)},
                at, source_path, dest_path)

\* CopyTree with a directory that is there at dest_path merged into
MergeInto(rm, made, source_path, dest_path) ==
    MergeTree(rm, made, Place(rm.tree, source_path), Place(made.tree, dest_path),
              source_path, dest_path)

\* the directory branch of copy_files after the rmtree, which left rm
CopyTree(rm, made, source_path, dest_path) ==
    IF rm.err # "none"
    THEN [tree |-> rm.tree, events |-> rm.events]
         @@ CopyDirError(rm.err, source_path, dest_path)
    ELSE MakeTree(rm, made, Place(rm.tree, source_path), Place(made.tree, dest_path),
                  source_path, dest_path)

\* the directories above dest_path made in what the rmtree left
Above(rm, dest_path) == MakeDirs(rm.tree, Parent(dest_path))

\* CopyDirEntry without the rmtree: the source subtree is merged into what is
\* at dest_path
CopyDirEntryMerge(t, source_path, dest_path) ==
    IF IsFileAt(t, dest_path)
    THEN [tree |-> t, events |-> {}] @@ CopyDirError("OSError", source_path, dest_path)
    ELSE MergeInto([tree |-> t, events |-> {}, err |-> "none"],
                   MakeDirs(t, Parent(dest_path)), source_path, dest_path)

\* the directory branch of copy_files: rmtree of what is at dest_path (a
\* regular file there makes it fail), then shutil.copytree and what follows
CopyDirEntry(t, source_path, dest_path) ==
    IF IsFileAt(t, dest_path)
    THEN [tree |-> t, events |-> {}] @@ CopyDirError("OSError", source_path, dest_path)
    ELSE IF ExistsAt(t, dest_path)
    THEN CopyTree(RmTree(t, Place(t, dest_path)),
                  Above(RmTree(t, Place(t, dest_path)), dest_path),
                  source_path, dest_path)
    ELSE CopyTree([tree |-> t, events |-> {}, err |-> "none"],
                  MakeDirs(t, Parent(dest_path)), source_path, dest_path)

----------------------------------------------------------------------------
(* copy_files *)

\* CopyEntry with a missing entry skipped instead of raised
CopyEntrySkipMissing(t, same, entry) ==
    LET source_path == Slash(WindowsBase, ParseParts(entry))
        dest_path == Slash(Wsl2Base(same), ParseParts(entry))
    IN  IF ~ExistsAt(t, source_path)
        THEN [tree |-> t, events |-> {}, err |-> "none", msg |-> "", copied |-> <<>>]
        ELSE IF IsFileAt(t, source_path)
        THEN CopyFileEntry(t, Wsl2Base(same), source_path, dest_path)
        ELSE CopyDirEntry(t, source_path, dest_path)

\* one iteration of the loop of copy_files, for the entry string entry
CopyEntry(t, same, entry) ==
    LET source_path == Slash(WindowsBase, ParseParts(entry))
        dest_path == Slash(Wsl2Base(same), ParseParts(entry))
    IN  IF ~ExistsAt(t, source_path)
        THEN [tree |-> t, events |-> {}, err |-> "FileNotFoundError",
              msg |-> "Source path not found: " \o Text(source_path),
              copied |-> <<>>]
        ELSE IF IsFileAt(t, source_path)
        THEN CopyFileEntry(t, Wsl2Base(same), source_path, dest_path)
        ELSE CopyDirEntry(t, source_path, dest_path)

RECURSIVE CopyLoop(_, _, _, _), CopyStep(_, _, _, _, _)
\* the loop of copy_files from entry i on; st is what the call has done so
\* far, every entry being looked up in the tree as the earlier iterations
\* left it
CopyLoop(entries, same, i, st) ==
    IF i > Len(entries) THEN [st EXCEPT !.idx = i]
    ELSE CopyStep(entries, same, i, st, CopyEntry(st.tree, same, entries[i]))

\* the loop of copy_files once the iteration for entry i has ended as r: an
\* exception ends the loop
CopyStep(entries, same, i, st, r) ==
    IF r.err # "none"
    THEN [tree |-> r.tree, events |-> st.events \cup r.events,
          copied |-> st.copied \o r.copied, attempted |-> st.attempted \cup {i},
          idx |-> i, err |-> r.err, msg |-> r.msg]
    ELSE CopyLoop(entries, same, i + 1,
                  [tree |-> r.tree, events |-> st.events \cup r.events,
                   copied |-> st.copied \o r.copied,
                   attempted |-> st.attempted \cup {i},
                   idx |-> i, err |-> r.err, msg |-> r.msg])

\* what copy_files did, st, as the engine sees it: what it leaves below
\* dest_root (tree) and below source_root (source), and the paths written
\* from dest_root
Outcome(st, same) ==
    [tree |-> Below(st.tree, Wsl2Base(same)),
     source |-> Below(st.tree, WindowsBase),
     events |-> {Ev(e.op, FromDest(e.path, same)) : e \in st.events},
     copied |-> IF st.copied = <<>> THEN <<>>
                ELSE [k \in 1..Len(st.copied) |-> FromDest(st.copied[k], same)],
     attempted |-> st.attempted,
     idx |-> st.idx,
     err |-> st.err,
     msg |-> st.msg]

\* copy_files()
copy_files(wb, w2, entries, s, t, same) ==
    IF wb = "unset" \/ w2 = "unset"
    THEN Outcome([tree |-> World(s, t, same), events |-> {}, copied |-> <<>>,
                  attempted |-> {}, idx |-> 0, err |-> "ValueError",
                  msg |-> "Source and destination paths must be configured"],
                 same)
    ELSE Outcome(CopyLoop(entries, same, 1,
                          [tree |-> World(s, t, same), events |-> {}, copied |-> <<>>,
                           attempted |-> {}, idx |-> 0, err |-> "none", msg |-> ""]),
                 same)

----------------------------------------------------------------------------
(* cleanup_destination *)

\* IsCovered with the separator left out of the prefix test
IsCoveredRawPrefix(rel_path, entries) ==
    \E i \in 1..Len(entries) :
        \/ Str(rel_path) = entries[i]
        \/ StartsWith(Str(rel_path), entries[i])

\* "file is under a configured directory": the string test of cleanup_destination
IsCovered(rel_path, entries) ==
    \E i \in 1..Len(entries) :
        \/ Str(rel_path) = entries[i]
        \/ StartsWith(Str(rel_path), entries[i] \o "/")

\* should_keep without the test against the configured entries
should_keepOnlyKeepSet(file_path, keep, entries) ==
    file_path \in keep

should_keep(file_path, keep, entries) ==
    file_path \in keep \/ IsCovered(file_path, entries)

\* the exception cleanup_destination raises for the exception e of unlink():
\* except PermissionError, then except OSError
DeletionError(e) == IF e = "PermissionError" THEN "PermissionError" ELSE "OSError"

RECURSIVE DeleteLoopSkipFailed(_, _, _, _)
\* DeleteLoop with a failed unlink() passed over instead of raised
DeleteLoopSkipFailed(t, listing, keep, entries) ==
    IF listing = <<>> THEN [tree |-> t, deleted |-> <<>>, err |-> "none"]
    ELSE
    LET f == Head(listing)
    IN  IF should_keep(f, keep, entries) \/ f \in DOMAIN faults.unlink
        THEN DeleteLoopSkipFailed(t, Tail(listing), keep, entries)
        ELSE LET rest == DeleteLoopSkipFailed(Restrict(t, DOMAIN t \ {f}),
                                              Tail(listing), keep, entries)
             IN  [rest EXCEPT !.deleted = <<f>> \o @]

RECURSIVE DeleteLoop(_, _, _, _)
\* the deletion loop over all_dest_files: the first unlink() the file system
\* refuses ends it with the exception raised
DeleteLoop(t, listing, keep, entries) ==
    IF listing = <<>> THEN [tree |-> t, deleted |-> <<>>, err |-> "none"]
    ELSE
    LET f == Head(listing)
    IN  IF should_keep(f, keep, entries)
        THEN DeleteLoop(t, Tail(listing), keep, entries)
        ELSE IF f \in DOMAIN faults.unlink
        THEN [tree |-> t, deleted |-> <<>>,
              err |-> DeletionError(faults.unlink[f])]
        ELSE LET rest == DeleteLoop(Restrict(t, DOMAIN t \ {f}),
                                    Tail(listing), keep, entries)
             IN  [rest EXCEPT !.deleted = <<f>> \o @]

RECURSIVE PrunePass(_, _)
\* the loop over list(wsl2_base.rglob("*")): an item that is, when the loop
\* reaches it, a directory without entries is removed.  item.iterdir() is
\* outside the try: a directory that cannot be listed ends the loop with
\* PermissionError; a refused rmdir() is passed over.
PrunePass(t, listing) ==
    IF listing = <<>> THEN [tree |-> t, err |-> "none"]
    ELSE
    LET item == Head(listing)
    IN  IF IsDir(t, item) /\ item \in faults.unlistable
        THEN [tree |-> t, err |-> "PermissionError"]
        ELSE IF IsDir(t, item) /\ Children(t, item) = {}
                /\ item \notin faults.unremovable
        THEN PrunePass(Restrict(t, DOMAIN t \ {item}), Tail(listing))
        ELSE PrunePass(t, Tail(listing))

\* what rglob("*") finds of t: it does not look into a directory that cannot
\* be listed (pathlib passes over the PermissionError of scandir)
Visible(t) ==
    Restrict(t, {p \in DOMAIN t : \A a \in Ancestors(p) : a \notin faults.unlistable})

\* get_destination_files()
get_destination_files(t) == SelectFiles(t, Rglob(Visible(t), <<>>))

cleanup_destination(w2, t, keep, entries) ==
    IF w2 = "unset"
    THEN [tree |-> t, events |-> {}, deleted |-> <<>>, err |-> "ValueError"]
    ELSE IF w2 = "missing"
    THEN [tree |-> t, events |-> {}, deleted |-> <<>>, err |-> "FileNotFoundError"]
    ELSE
    LET del == DeleteLoop(t, get_destination_files(t), keep, entries)
        pruned == PrunePass(del.tree, Rglob(Visible(del.tree), <<>>))
        unlinked == {Ev("unlink", f) : f \in Range(del.deleted)}
    IN  IF del.err # "none"
        THEN [tree |-> del.tree, events |-> unlinked, deleted |-> del.deleted,
              err |-> del.err]
        ELSE [tree |-> pruned.tree,
              events |-> unlinked
                         \cup {Ev("rmdir", d) : d \in DOMAIN del.tree \ DOMAIN pruned.tree},
              deleted |-> del.deleted,
              err |-> pruned.err]

----------------------------------------------------------------------------
(* validate_paths *)

\* list(root.iterdir()) inside try/except PermissionError
IterdirOutcome(root) ==
    CASE root = "noaccess" -> "PermissionError"
      [] root = "file" -> "NotADirectoryError"
      [] OTHER -> "none"

validate_paths(wb, w2) ==
    IF wb = "unset" THEN "ValueError"
    ELSE IF w2 = "unset" THEN "ValueError"
    ELSE IF wb = "missing" THEN "FileNotFoundError"
    ELSE IF w2 = "missing" THEN "FileNotFoundError"
    ELSE IF IterdirOutcome(wb) # "none" THEN IterdirOutcome(wb)
    ELSE IterdirOutcome(w2)

----------------------------------------------------------------------------
(* get_source_files *)

\* a path of the directory the roots lie in, as get_source_files writes it:
\* relative to source_root when it starts with it, from "/" otherwise
FromSource(p) ==
    IF IsPrefix(WindowsBase, p) THEN SubSeq(p, 2, Len(p)) ELSE <<"/">> \o p

RECURSIVE SourceLoop(_, _, _)
\* the loop of get_source_files from entry i on, w being the directory the
\* roots lie in: an entry that exists adds itself when it is a file, the files
\* below it when it is a directory
SourceLoop(entries, w, i) ==
    IF i > Len(entries) THEN <<>>
    ELSE
    LET source_path == Slash(WindowsBase, ParseParts(entries[i]))
        from == Place(w, source_path)
    IN  (IF ~ExistsAt(w, source_path) THEN <<>>
         ELSE IF IsFileAt(w, source_path) THEN <<source_path>>
         ELSE RebaseEach(SelectFiles(w, Rglob(w, from)), from, source_path))
        \o SourceLoop(entries, w, i + 1)

\* get_source_files(), s being below source_root and t below dest_root.  Below
\* a root that is a regular file nothing exists; below a root the process has
\* no access to, Path.exists() either answers or raises PermissionError
\* (searchable tells which: the directory's search permission).
get_source_files(wb, entries, s, t, same, searchable) ==
    IF wb = "unset" THEN [files |-> <<>>, err |-> "ValueError"]
    ELSE IF wb = "missing" THEN [files |-> <<>>, err |-> "FileNotFoundError"]
    ELSE IF wb = "file" THEN [files |-> <<>>, err |-> "none"]
    ELSE IF wb = "noaccess" /\ ~searchable /\ entries # <<>>
    THEN [files |-> <<>>, err |-> "PermissionError"]
    ELSE LET found == SourceLoop(entries, World(s, t, same), 1)
         IN  [files |-> IF found = <<>> THEN <<>>
                        ELSE [k \in 1..Len(found) |-> FromSource(found[k])],
              err |-> "none"]

\* where a call that is not part of sync() ends
CallEnd(e) == IF e = "none" THEN "done" ELSE "failed"

GetSourceFiles ==
    /\ pc = "get_source_files"
    /\ \E searchable \in BOOLEAN :
        \E r \in {get_source_files(windows_base, files, src, dst, sameRoot, searchable)} :
            /\ source_files' = r.files
            /\ err' = r.err
            /\ pc' = CallEnd(r.err)
    /\ calls' = Append(calls, "get_source_files")
    /\ UNCHANGED <<windows_base, wsl2_base, sameRoot, files, src, dst, idx,
                   copied_files, keep_files, deleted_files, phases, attempted,
                   log, dst0, src0, run, after1>>
    /\ UNCHANGED <<faults, dest_files, argv, config_file, config, errmsg,
                   exit_code, escaped, report, call>>

----------------------------------------------------------------------------

(* parse_config *)

\* s.split(sep) for the one-character separator sep: the pieces between the
\* positions of sep, the k-th piece ending at the k-th of them
SplitAt(s, sep) ==
    LET at == {i \in 1..Len(s) : SubSeq(s, i, i) = sep}
        cut(k) == IF k = 0 THEN 0
                  ELSE IF k > Cardinality(at) THEN Len(s) + 1
                  ELSE CHOOSE i \in at : Cardinality({j \in at : j <= i}) = k
    IN  [k \in 1..(Cardinality(at) + 1) |-> SubSeq(s, cut(k - 1) + 1, cut(k) - 1)]

RECURSIVE Join(_, _)
\* sep.join(parts)
Join(parts, sep) ==
    IF parts = <<>> THEN ""
    ELSE IF Len(parts) = 1 THEN parts[1]
    ELSE parts[1] \o sep \o Join(Tail(parts), sep)

RECURSIVE CleanLines(_)
\* the lines without their comments, stripped, the empty ones left out
CleanLines(lines) ==
    IF lines = <<>> THEN <<>>
    ELSE LET line == Strip(SplitAt(Head(lines), "#")[1])
         IN  (IF line = "" THEN <<>> ELSE <<line>>) \o CleanLines(Tail(lines))

\* \s* from position i: the position of the first character it does not take
SkipSpace(s, i) ==
    Min({k \in i..(Len(s) + 1) : k > Len(s) \/ ~IsSpace(SubSeq(s, k, k))})

\* the first position from i on where s holds the character c, Len(s) + 1 if
\* nowhere
IndexOf(s, c, i) ==
    Min({k \in i..(Len(s) + 1) : k > Len(s) \/ SubSeq(s, k, k) = c})

NoMatch == [found |-> FALSE, group |-> ""]

\* s holds pat at position i
HasAt(s, i, pat) ==
    i + Len(pat) - 1 <= Len(s) /\ SubSeq(s, i, i + Len(pat) - 1) = pat

\* key\s*=\s*(.+) matched at position i of s.  (.+) takes the rest of a line
\* and needs one character: when \s* ran to the end of s it gives characters
\* back, as far as the last one that is no line break.
MatchValueAt(s, i, key) ==
    LET eq == SkipSpace(s, i + Len(key))
        greedy == SkipSpace(s, eq + 1)
        back == {k \in (eq + 1)..Len(s) : SubSeq(s, k, k) # "\n"}
        from == IF greedy <= Len(s) THEN greedy
                ELSE IF back = {} THEN 0
                ELSE Max(back)
    IN  IF ~HasAt(s, i, key) THEN NoMatch
        ELSE IF eq > Len(s) \/ SubSeq(s, eq, eq) # "=" THEN NoMatch
        ELSE IF from = 0 THEN NoMatch
        ELSE [found |-> TRUE,
              group |-> SubSeq(s, from, IndexOf(s, "\n", from) - 1)]

\* key\s*=\s*\[(.*?)\] matched at position i of s, "." matching line breaks
MatchBlockAt(s, i, key) ==
    LET eq == SkipSpace(s, i + Len(key))
        open == SkipSpace(s, eq + 1)
        close == IndexOf(s, "]", open + 1)
    IN  IF ~HasAt(s, i, key) THEN NoMatch
        ELSE IF eq > Len(s) \/ SubSeq(s, eq, eq) # "=" THEN NoMatch
        ELSE IF open > Len(s) \/ SubSeq(s, open, open) # "[" THEN NoMatch
        ELSE IF close > Len(s) THEN NoMatch
        ELSE [found |-> TRUE, group |-> SubSeq(s, open + 1, close - 1)]

\* re.search(key\s*=\s*(.+), s): the leftmost match
SearchValue(s, key) ==
    LET at == {i \in 1..Len(s) : MatchValueAt(s, i, key).found}
    IN  IF at = {} THEN NoMatch ELSE MatchValueAt(s, Min(at), key)

\* re.search(key\s*=\s*\[(.*?)\], s, re.DOTALL)
SearchBlock(s, key) ==
    LET at == {i \in 1..Len(s) : MatchBlockAt(s, i, key).found}
    IN  IF at = {} THEN NoMatch ELSE MatchBlockAt(s, Min(at), key)

RECURSIVE FindAllQuoted(_, _)
\* re.findall("([^"]*)", s) from position i on
FindAllQuoted(s, i) ==
    LET open == IndexOf(s, "\"", i)
        close == IndexOf(s, "\"", open + 1)
    IN  IF open > Len(s) \/ close > Len(s) THEN <<>>
        ELSE <<SubSeq(s, open + 1, close - 1)>> \o FindAllQuoted(s, close + 1)

Failed(class, msg) ==
    [err |-> class, msg |-> msg, config |-> NoConfig]

\* parse_config with the keys looked for in another order: files first
parse_configFilesFirst(file) ==
    LET content == Strip(file.text)
        content_clean == Join(CleanLines(SplitAt(content, "\n")), "\n")
        windows_match == SearchValue(content_clean, "windows_base")
        wsl2_match == SearchValue(content_clean, "wsl2_base")
        files_match == SearchBlock(content_clean, "files")
    IN  IF ~file.exists THEN Failed("FileNotFoundError", "Config file not found")
        ELSE IF content = "" THEN Failed("ValueError", "Config file is empty")
        ELSE IF ~files_match.found
        THEN Failed("ValueError", "Missing required field: files")
        ELSE IF ~wsl2_match.found
        THEN Failed("ValueError", "Missing required field: wsl2_base")
        ELSE IF ~windows_match.found
        THEN Failed("ValueError", "Missing required field: windows_base")
        ELSE [err |-> "none", msg |-> "",
              config |-> [windows_base |-> PathStr(Strip(windows_match.group)),
                          wsl2_base |-> PathStr(Strip(wsl2_match.group)),
                          files |-> FindAllQuoted(Strip(files_match.group), 1)]]

\* parse_config(config_path), file being what is at config_path
parse_config(file) ==
    LET content == Strip(file.text)
        content_clean == Join(CleanLines(SplitAt(content, "\n")), "\n")
        windows_match == SearchValue(content_clean, "windows_base")
        wsl2_match == SearchValue(content_clean, "wsl2_base")
        files_match == SearchBlock(content_clean, "files")
    IN  IF ~file.exists THEN Failed("FileNotFoundError", "Config file not found")
        ELSE IF content = "" THEN Failed("ValueError", "Config file is empty")
        ELSE IF ~windows_match.found
        THEN Failed("ValueError", "Missing required field: windows_base")
        ELSE IF ~wsl2_match.found
        THEN Failed("ValueError", "Missing required field: wsl2_base")
        ELSE IF ~files_match.found
        THEN Failed("ValueError", "Missing required field: files")
        ELSE [err |-> "none", msg |-> "",
              config |-> [windows_base |-> PathStr(Strip(windows_match.group)),
                          wsl2_base |-> PathStr(Strip(wsl2_match.group)),
                          files |-> FindAllQuoted(Strip(files_match.group), 1)]]

ParseConfig ==
    /\ pc = "parse_config"
    /\ LET r == parse_config(config_file)
       IN  /\ err' = r.err
           /\ errmsg' = r.msg
           /\ config' = r.config
           /\ pc' = CallEnd(r.err)
    /\ calls' = Append(calls, "parse_config")
    /\ UNCHANGED <<windows_base, wsl2_base, sameRoot, files, src, dst, idx,
                   copied_files, keep_files, deleted_files, phases, attempted,
                   log, dst0, src0, run, after1>>
    /\ UNCHANGED <<faults, source_files, dest_files, argv, config_file,
                   exit_code, escaped, report, call>>

----------------------------------------------------------------------------

(* validate_config *)

Raise(class, msg) == [err |-> class, msg |-> msg]

\* str(path) is blank, or is what the path of the empty string is written as
IsEmptyPath(p) == Strip(p) = "" \/ p = "."

\* validate_config without the test for repeated entries
validate_configNoDuplicateTest(cfg) ==
    IF cfg.windows_base = "None" THEN Raise("ValueError", "windows_base is required")
    ELSE IF cfg.wsl2_base = "None" THEN Raise("ValueError", "wsl2_base is required")
    ELSE IF cfg.files = <<>> THEN Raise("ValueError", "files list cannot be empty")
    ELSE IF IsEmptyPath(cfg.windows_base)
    THEN Raise("ValueError", "Invalid path format: windows_base path cannot be empty")
    ELSE IF IsEmptyPath(cfg.wsl2_base)
    THEN Raise("ValueError", "Invalid path format: wsl2_base path cannot be empty")
    ELSE Raise("none", "")

\* validate_config(config): the exception it raises and its message, class
\* "none" when it returns True
validate_config(cfg) ==
    IF cfg.windows_base = "None" THEN Raise("ValueError", "windows_base is required")
    ELSE IF cfg.wsl2_base = "None" THEN Raise("ValueError", "wsl2_base is required")
    ELSE IF cfg.files = <<>> THEN Raise("ValueError", "files list cannot be empty")
    ELSE IF IsEmptyPath(cfg.windows_base)
    THEN Raise("ValueError", "Invalid path format: windows_base path cannot be empty")
    ELSE IF IsEmptyPath(cfg.wsl2_base)
    THEN Raise("ValueError", "Invalid path format: wsl2_base path cannot be empty")
    ELSE IF Len(cfg.files) # Cardinality(Range(cfg.files))
    THEN Raise("ValueError", "Duplicate files found in configuration")
    ELSE Raise("none", "")

ValidateConfig ==
    /\ pc = "validate_config"
    /\ LET r == validate_config(config)
       IN  /\ err' = r.err
           /\ errmsg' = r.msg
           /\ pc' = CallEnd(r.err)
    /\ calls' = Append(calls, "validate_config")
    /\ UNCHANGED <<windows_base, wsl2_base, sameRoot, files, src, dst, idx,
                   copied_files, keep_files, deleted_files, phases, attempted,
                   log, dst0, src0, run, after1>>
    /\ UNCHANGED <<faults, source_files, dest_files, argv, config_file, config,
                   exit_code, escaped, report, call>>

----------------------------------------------------------------------------

(* is_path_safe *)

\* the directory relative paths are resolved against
Cwd == <<"h">>

\* Path(...) of the given components: "." components are dropped
PurePath(abs, components) == [abs |-> abs, parts |-> DropEmpty(components)]

\* base / path
JoinPath(base, path) ==
    IF path.abs THEN path ELSE [abs |-> base.abs, parts |-> base.parts \o path.parts]

RECURSIVE Collapse(_, _)
\* ".." takes back the component before it, and nothing at the root
Collapse(done, parts) ==
    IF parts = <<>> THEN done
    ELSE IF Head(parts) = ".."
    THEN Collapse(SubSeq(done, 1, Len(done) - 1), Tail(parts))
    ELSE Collapse(Append(done, Head(parts)), Tail(parts))

\* path.resolve(), no symbolic link being involved: absolute, without ".."
Resolve(path) ==
    [abs |-> TRUE, parts |-> Collapse(<<>>, (IF path.abs THEN <<>> ELSE Cwd) \o path.parts)]

\* path.relative_to(other): the exception it raises, "none" if it returns
RelativeTo(path, other) ==
    IF path.abs = other.abs /\ IsPrefix(other.parts, path.parts) THEN "none"
    ELSE "ValueError"

\* is_path_safe with the paths compared as given, not resolved
is_path_safeUnresolved(path, base_path) ==
    LET full_path == JoinPath(base_path, path)
        e == RelativeTo(full_path, base_path)
    IN  IF e = "none" THEN "True"
        ELSE IF e = "ValueError" THEN "False"
        ELSE e

\* is_path_safe(path, base_path): "True", "False", or the exception that
\* leaves it
is_path_safe(path, base_path) ==
    LET full_path == IF ~path.abs THEN Resolve(JoinPath(base_path, path))
                     ELSE Resolve(path)
        base_resolved == Resolve(base_path)
        e == RelativeTo(full_path, base_resolved)
    IN  IF e = "none" THEN "True"
        ELSE IF e = "ValueError" THEN "False"
        ELSE e

IsPathSafe ==
    /\ pc = "is_path_safe"
    /\ call' = [call EXCEPT !.result = is_path_safe(call.path, call.base_path)]
    /\ pc' = "done"
    /\ calls' = Append(calls, "is_path_safe")
    /\ UNCHANGED <<windows_base, wsl2_base, sameRoot, files, src, dst, err, idx,
                   copied_files, keep_files, deleted_files, phases, attempted,
                   log, dst0, src0, run, after1>>
    /\ UNCHANGED <<faults, source_files, dest_files, argv, config_file, config,
                   errmsg, exit_code, escaped, report>>

----------------------------------------------------------------------------

(* The command line: main, validate_config_command, run_sync *)

\* engine.get_destination_files() as a call of its own: rglob finds nothing
\* under a root that is a regular file or cannot be listed
DestinationFiles(w2, t) ==
    IF w2 = "unset" THEN [files |-> <<>>, err |-> "ValueError"]
    ELSE IF w2 = "missing" THEN [files |-> <<>>, err |-> "FileNotFoundError"]
    ELSE IF w2 # "dir" THEN [files |-> <<>>, err |-> "none"]
    ELSE [files |-> get_destination_files(t), err |-> "none"]

\* parse_config, then validate_config on what it returned: the configuration
\* and the first exception
LoadConfig(file) ==
    LET parsed == parse_config(file)
        checked == validate_config(parsed.config)
    IN  IF parsed.err # "none"
        THEN [config |-> NoConfig, err |-> parsed.err, msg |-> parsed.msg,
              calls |-> <<"parse_config">>]
        ELSE [config |-> parsed.config, err |-> checked.err, msg |-> checked.msg,
              calls |-> <<"parse_config", "validate_config">>]

\* the exit code of a command that ended with exception e: every except clause
\* returns 1
ExitCode(e) == IF e = "none" THEN <<0>> ELSE <<1>>

\* Main with the validate-config flag looked at before the version flag
MainValidateFirst ==
    /\ pc = "main"
    /\ IF ~argv.ok
       THEN /\ calls' = calls \o <<"parse_args">>
            /\ escaped' = "SystemExit"
            /\ pc' = "exited"
            /\ UNCHANGED exit_code
       ELSE IF argv.validate_config
       THEN /\ calls' = calls \o <<"parse_args", "validate_config_command">>
            /\ pc' = "validate_config_command"
            /\ UNCHANGED <<exit_code, escaped>>
       ELSE IF argv.version
       THEN /\ calls' = calls \o <<"parse_args", "show_version">>
            /\ exit_code' = <<0>>
            /\ pc' = "exited"
            /\ UNCHANGED escaped
       ELSE /\ calls' = calls \o <<"parse_args", "run_sync">>
            /\ pc' = "run_sync"
            /\ UNCHANGED <<exit_code, escaped>>
    /\ UNCHANGED <<windows_base, wsl2_base, sameRoot, files, src, dst, err, idx,
                   copied_files, keep_files, deleted_files, phases, attempted,
                   log, dst0, src0, run, after1>>
    /\ UNCHANGED <<faults, source_files, dest_files, argv, config_file, config,
                   errmsg, report, call>>

\* main(args) up to the command it selects.  parse_args leaves through
\* SystemExit on arguments it cannot use, which except Exception lets pass.
Main ==
    /\ pc = "main"
    /\ IF ~argv.ok
       THEN /\ calls' = calls \o <<"parse_args">>
            /\ escaped' = "SystemExit"
            /\ pc' = "exited"
            /\ UNCHANGED exit_code
       ELSE IF argv.version
       THEN /\ calls' = calls \o <<"parse_args", "show_version">>
            /\ exit_code' = <<0>>
            /\ pc' = "exited"
            /\ UNCHANGED escaped
       ELSE IF argv.validate_config
       THEN /\ calls' = calls \o <<"parse_args", "validate_config_command">>
            /\ pc' = "validate_config_command"
            /\ UNCHANGED <<exit_code, escaped>>
       ELSE /\ calls' = calls \o <<"parse_args", "run_sync">>
            /\ pc' = "run_sync"
            /\ UNCHANGED <<exit_code, escaped>>
    /\ UNCHANGED <<windows_base, wsl2_base, sameRoot, files, src, dst, err, idx,
                   copied_files, keep_files, deleted_files, phases, attempted,
                   log, dst0, src0, run, after1>>
    /\ UNCHANGED <<faults, source_files, dest_files, argv, config_file, config,
                   errmsg, report, call>>

\* validate_config_command(config_path)
ValidateConfigCommand ==
    /\ pc = "validate_config_command"
    /\ \E r \in {LoadConfig(config_file)} :
           /\ config' = r.config
           /\ err' = r.err
           /\ errmsg' = r.msg
           /\ calls' = calls \o r.calls
           /\ exit_code' = ExitCode(r.err)
    /\ pc' = "exited"
    /\ UNCHANGED <<windows_base, wsl2_base, sameRoot, files, src, dst, idx,
                   copied_files, keep_files, deleted_files, phases, attempted,
                   log, dst0, src0, run, after1>>
    /\ UNCHANGED <<faults, source_files, dest_files, argv, config_file, escaped,
                   report, call>>

\* RunSync with the dry_run argument ignored
RunSyncAlwaysSync ==
    /\ pc = "run_sync"
    /\ \E r \in {LoadConfig(config_file)} :
           /\ config' = r.config
           /\ err' = r.err
           /\ errmsg' = r.msg
           /\ IF r.err # "none"
              THEN /\ calls' = calls \o r.calls
                   /\ exit_code' = <<1>>
                   /\ pc' = "exited"
                   /\ UNCHANGED files
              ELSE /\ calls' = calls \o r.calls \o <<"WSLSyncEngine", "sync">>
                   /\ files' = r.config.files
                   /\ pc' = "validate"
                   /\ UNCHANGED exit_code
    /\ UNCHANGED <<windows_base, wsl2_base, sameRoot, src, dst, idx,
                   copied_files, keep_files, deleted_files, phases, attempted,
                   log, dst0, src0, run, after1>>
    /\ UNCHANGED <<faults, source_files, dest_files, argv, config_file, escaped,
                   report, call>>

\* run_sync(config_path, dry_run) up to the engine: the configuration is
\* loaded, the engine built on it, and either sync() called or the dry run
\* begun
RunSync ==
    /\ pc = "run_sync"
    /\ \E r \in {LoadConfig(config_file)} :
           /\ config' = r.config
           /\ err' = r.err
           /\ errmsg' = r.msg
           /\ IF r.err # "none"
              THEN /\ calls' = calls \o r.calls
                   /\ exit_code' = <<1>>
                   /\ pc' = "exited"
                   /\ UNCHANGED files
              ELSE IF argv.dry_run
              THEN /\ calls' = calls \o r.calls \o <<"WSLSyncEngine">>
                   /\ files' = r.config.files
                   /\ pc' = "dry_run"
                   /\ UNCHANGED exit_code
              ELSE /\ calls' = calls \o r.calls \o <<"WSLSyncEngine", "sync">>
                   /\ files' = r.config.files
                   /\ pc' = "validate"
                   /\ UNCHANGED exit_code
    /\ UNCHANGED <<windows_base, wsl2_base, sameRoot, src, dst, idx,
                   copied_files, keep_files, deleted_files, phases, attempted,
                   log, dst0, src0, run, after1>>
    /\ UNCHANGED <<faults, source_files, dest_files, argv, config_file, escaped,
                   report, call>>

RECURSIVE WouldDelete(_, _)
\* the destination files the dry run reports as "Would delete": those that
\* the string test against the entries does not cover
WouldDelete(listing, entries) ==
    IF listing = <<>> THEN <<>>
    ELSE (IF IsCovered(Head(listing), entries) THEN <<>> ELSE <<Head(listing)>>)
         \o WouldDelete(Tail(listing), entries)

\* the dry run of run_sync: the two listings and the report, any exception
\* ending it with exit code 1
DryRun ==
    /\ pc = "dry_run"
    /\ \E searchable \in BOOLEAN :
        \E sf \in {get_source_files(windows_base, files, src, dst, sameRoot, searchable)} :
        \E df \in {DestinationFiles(wsl2_base, dst)} :
            IF sf.err # "none"
            THEN /\ calls' = calls \o <<"get_source_files">>
                 /\ err' = sf.err
                 /\ exit_code' = <<1>>
                 /\ UNCHANGED <<source_files, dest_files, report>>
            ELSE IF df.err # "none"
            THEN /\ calls' = calls \o <<"get_source_files", "get_destination_files">>
                 /\ err' = df.err
                 /\ exit_code' = <<1>>
                 /\ source_files' = sf.files
                 /\ UNCHANGED <<dest_files, report>>
            ELSE /\ calls' = calls \o <<"get_source_files", "get_destination_files">>
                 /\ err' = "none"
                 /\ exit_code' = <<0>>
                 /\ source_files' = sf.files
                 /\ dest_files' = df.files
                 /\ report' = [copy |-> sf.files,
                               delete |-> WouldDelete(df.files, files)]
    /\ pc' = "exited"
    /\ UNCHANGED <<windows_base, wsl2_base, sameRoot, files, src, dst, idx,
                   copied_files, keep_files, deleted_files, phases, attempted,
                   log, dst0, src0, run, after1>>
    /\ UNCHANGED <<faults, argv, config_file, config, errmsg, escaped, call>>

\* engine.sync() is over, run_sync returns: 0 if it returned, 1 if it raised
RunSyncReturn ==
    /\ pc \in {"done", "failed"}
    /\ calls # <<>>
    /\ calls[Len(calls)] = "sync"
    /\ exit_code = NotReturned
    /\ exit_code' = ExitCode(err)
    /\ pc' = "exited"
    /\ UNCHANGED <<windows_base, wsl2_base, sameRoot, files, src, dst, err, idx,
                   copied_files, keep_files, deleted_files, phases, attempted,
                   log, dst0, src0, run, after1>>
    /\ UNCHANGED <<faults, source_files, dest_files, argv, config_file, config,
                   errmsg, calls, escaped, report, call>>

----------------------------------------------------------------------------

(* sync *)

\* create_directory_structure(file_path) called on its own, file_path being
\* call.path; run tells the first call from the second
CreateDirectoryStructure ==
    /\ pc = "create_directory_structure"
    /\ \E r \in {create_directory_structure(World(src, dst, sameRoot),
                                            Wsl2Base(sameRoot), call.path.parts)} :
           /\ dst' = Below(r.tree, Wsl2Base(sameRoot))
           /\ src' = Below(r.tree, WindowsBase)
           /\ log' = log \cup {[phase |-> run, op |-> e.op,
                                path |-> FromDest(e.path, sameRoot)] : e \in r.events}
           /\ err' = r.err
           /\ errmsg' = r.msg
           /\ pc' = CallEnd(r.err)
    /\ calls' = Append(calls, "create_directory_structure")
    /\ UNCHANGED <<windows_base, wsl2_base, sameRoot, files, idx, copied_files,
                   keep_files, deleted_files, phases, attempted, dst0, src0, run,
                   after1>>
    /\ UNCHANGED <<faults, source_files, dest_files, argv, config_file, config,
                   exit_code, escaped, report, call>>

\* create_directory_structure(file_path) is called again with the same path,
\* right after a first call that returned
CreateAgain ==
    /\ pc = "done"
    /\ run = "first"
    /\ run' = "second"
    /\ pc' = "create_directory_structure"
    /\ dst0' = dst
    /\ src0' = src
    /\ UNCHANGED <<windows_base, wsl2_base, sameRoot, files, src, dst, err, idx,
                   copied_files, keep_files, deleted_files, phases, attempted,
                   log, after1>>
    /\ UNCHANGED outer

\* SyncNext with an exception of copy_files caught and cleanup run all the same
SyncNextCleanupAnyway(phase, e) ==
    IF e # "none" /\ phase # "copy" THEN "failed"
    ELSE CASE phase = "validate" -> "copy"
           [] phase = "copy" -> "cleanup"
           [] phase = "cleanup" -> "done"

\* where sync() goes once phase has ended with exception e ("none": returned)
SyncNext(phase, e) ==
    IF e # "none" THEN "failed"
    ELSE CASE phase = "validate" -> "copy"
           [] phase = "copy" -> "cleanup"
           [] phase = "cleanup" -> "done"

Phase(name, e) == [name |-> name, err |-> e]

Tag(phase, events) ==
    {[phase |-> phase, op |-> e.op, path |-> e.path] : e \in events}

ValidatePaths ==
    /\ pc = "validate"
    /\ LET e == validate_paths(windows_base, wsl2_base)
       IN  /\ pc' = SyncNext("validate", e)
           /\ err' = e
    /\ phases' = Append(phases, Phase("validate", validate_paths(windows_base, wsl2_base)))
    /\ UNCHANGED <<windows_base, wsl2_base, sameRoot, files, src, dst, idx,
                   copied_files, keep_files, deleted_files, attempted, log,
                   dst0, src0, run, after1>>
    /\ UNCHANGED outer

CopyFiles ==
    /\ pc = "copy"
    /\ \E r \in {copy_files(windows_base, wsl2_base, files, src, dst, sameRoot)} :
           /\ dst' = r.tree
           /\ src' = IF sameRoot THEN r.tree ELSE r.source
           /\ copied_files' = r.copied
           /\ keep_files' = IF r.err = "none" THEN Range(r.copied) ELSE keep_files
           /\ idx' = r.idx
           /\ attempted' = r.attempted
           /\ log' = log \cup Tag("copy", r.events)
           /\ err' = r.err
           /\ errmsg' = r.msg
           /\ pc' = SyncNext("copy", r.err)
           /\ phases' = Append(phases, Phase("copy", r.err))
    /\ UNCHANGED <<windows_base, wsl2_base, sameRoot, files, deleted_files,
                   dst0, src0, run, after1>>
    /\ UNCHANGED <<faults, source_files, dest_files, argv, config_file, config,
                   calls, exit_code, escaped, report, call>>

\* CleanupDestination working on the list of files that were under dest_root
\* when sync() was called
CleanupDestinationSnapshot ==
    /\ pc = "cleanup"
    /\ \E del \in {DeleteLoop(dst, SelectFiles(dst, get_destination_files(dst0)),
                              keep_files, files)} :
       \E pruned \in {PrunePass(del.tree, Rglob(Visible(del.tree), <<>>))} :
           /\ dst' = pruned.tree
           /\ src' = IF sameRoot THEN pruned.tree ELSE src
           /\ deleted_files' = del.deleted
           /\ log' = log \cup Tag("cleanup", {Ev("unlink", f) : f \in Range(del.deleted)})
           /\ err' = del.err
           /\ pc' = SyncNext("cleanup", del.err)
           /\ phases' = Append(phases, Phase("cleanup", del.err))
    /\ UNCHANGED <<windows_base, wsl2_base, sameRoot, files, idx, copied_files,
                   keep_files, attempted, dst0, src0, run, after1>>
    /\ UNCHANGED outer

CleanupDestination ==
    /\ pc = "cleanup"
    /\ \E r \in {cleanup_destination(wsl2_base, dst, keep_files, files)} :
           /\ dst' = r.tree
           /\ src' = IF sameRoot THEN r.tree ELSE src
           /\ deleted_files' = r.deleted
           /\ log' = log \cup Tag("cleanup", r.events)
           /\ err' = r.err
           /\ pc' = SyncNext("cleanup", r.err)
           /\ phases' = Append(phases, Phase("cleanup", r.err))
    /\ UNCHANGED <<windows_base, wsl2_base, sameRoot, files, idx, copied_files,
                   keep_files, attempted, dst0, src0, run, after1>>
    /\ UNCHANGED outer

\* sync() is called a second time, right after a first call that returned
SyncAgain ==
    /\ pc = "done"
    /\ run = "first"
    /\ run' = "second"
    /\ after1' = Files(dst)
    /\ pc' = "validate"
    /\ err' = "none"
    /\ idx' = 0
    /\ copied_files' = <<>>
    /\ keep_files' = {}
    /\ deleted_files' = <<>>
    /\ phases' = <<>>
    /\ attempted' = {}
    /\ log' = {}
    /\ dst0' = dst
    /\ src0' = src
    /\ UNCHANGED <<windows_base, wsl2_base, sameRoot, files, src, dst>>
    /\ UNCHANGED outer

\* another process writes a regular file somewhere under dest_root while
\* sync() is between two of its phases; the engine takes no lock
OtherActorWrites ==
    /\ pc \in {"copy", "cleanup"}
    /\ Cardinality({e \in log : e.phase = "other"}) < MaxOtherWrites
    /\ \E p \in PathUniverse :
          /\ IsDir(dst, Parent(p))
          /\ ~IsDir(dst, p)
          /\ dst' = Overlay(dst, [q \in {p} |-> "new"])
          /\ log' = log \cup Tag("other", {Ev("write", p)})
    /\ UNCHANGED <<windows_base, wsl2_base, sameRoot, files, src, pc, err, idx,
                   copied_files, keep_files, deleted_files, phases, attempted,
                   dst0, src0, run, after1>>
    /\ UNCHANGED outer

----------------------------------------------------------------------------
(* Initial states *)

Configs == UNION {[1..n -> EntryStrings] : n \in 0..MaxEntries}

\* the initial source trees (every file holds source content) and the initial
\* destination trees (every file holds older content)
SourceTrees == Trees("src")
DestTrees == Trees("old")

\* a root that is no directory has nothing below it
TreesOf(root, trees) == IF root = "dir" THEN trees ELSE {EmptyTree}

Fresh ==
    /\ err = "none"
    /\ idx = 0
    /\ copied_files = <<>>
    /\ deleted_files = <<>>
    /\ phases = <<>>
    /\ attempted = {}
    /\ log = {}
    /\ dst0 = dst
    /\ src0 = src
    /\ run = "first"
    /\ after1 = {}

\* no command line, no configuration file, no helper call: the engine is used
\* directly
Idle ==
    /\ source_files = <<>>
    /\ dest_files = <<>>
    /\ argv = NoArgs
    /\ config_file = NoFile
    /\ config = NoConfig
    /\ errmsg = ""
    /\ calls = <<>>
    /\ exit_code = NotReturned
    /\ escaped = "none"
    /\ report = NoReport
    /\ call = NoCall

\* sync() has been called on an engine whose configuration names any two
\* roots (distinct, or one and the same directory) and any entry list
Init ==
    /\ windows_base \in RootKinds
    /\ wsl2_base \in RootKinds
    /\ files \in Configs
    /\ sameRoot \in BOOLEAN
    /\ src \in TreesOf(windows_base, SourceTrees)
    /\ IF sameRoot
       THEN windows_base = "dir" /\ wsl2_base = "dir" /\ dst = src
       ELSE dst \in TreesOf(wsl2_base, DestTrees)
    /\ pc = "validate"
    /\ keep_files = {}
    /\ Fresh
    /\ faults = NoFaults
    /\ Idle

\* cleanup_destination(keep) has been called on its own
InitCleanup ==
    /\ windows_base = "dir"
    /\ wsl2_base \in {"dir", "unset", "missing"}
    /\ files \in Configs
    /\ sameRoot = FALSE
    /\ src = EmptyTree
    /\ dst \in TreesOf(wsl2_base, DestTrees)
    /\ keep_files \in SUBSET (DOMAIN dst)
    /\ pc = "cleanup"
    /\ Fresh
    /\ faults = NoFaults
    /\ Idle

\* the trees that may lie below a root: those of a directory, also below a
\* directory the process cannot list
TreesBelow(root, trees) ==
    IF root \in {"dir", "noaccess"} THEN trees ELSE {EmptyTree}

\* get_source_files() has been called on its own, on any source root
InitSources ==
    /\ windows_base \in RootKinds
    /\ wsl2_base = "dir"
    /\ files \in Configs
    /\ sameRoot = FALSE
    /\ src \in TreesBelow(windows_base, SourceTrees)
    /\ dst \in DestTrees
    /\ pc = "get_source_files"
    /\ keep_files = {}
    /\ Fresh
    /\ faults = NoFaults
    /\ Idle

NextSources == GetSourceFiles

SpecSources == InitSources /\ [][NextSources]_vars

\* the exceptions unlink() raises when the file system refuses: access denied,
\* or another OS error (read-only file system, busy file)
UnlinkErrors == {"PermissionError", "OSError"}

Dirs(t) == {p \in DOMAIN t : t[p] = "dir"}

\* what the file system may refuse under the tree t
FaultsOf(t) ==
    {[unlink |-> u, unlistable |-> l, unremovable |-> r,
      unreadable |-> {}, readonly |-> {}, foreign |-> {}] :
        u \in UNION {[S -> UnlinkErrors] : S \in SUBSET Files(t)},
        l \in SUBSET Dirs(t),
        r \in SUBSET Dirs(t)}

\* cleanup_destination(keep) has been called on its own, on a destination
\* where the file system refuses some operations
InitFaults ==
    /\ windows_base = "dir"
    /\ wsl2_base = "dir"
    /\ files \in Configs
    /\ sameRoot = FALSE
    /\ src = EmptyTree
    /\ dst \in DestTrees
    /\ keep_files \in {{}, Files(dst)}
    /\ faults \in FaultsOf(dst)
    /\ pc = "cleanup"
    /\ Fresh
    /\ Idle

NextFaults == CleanupDestination

SpecFaults == InitFaults /\ [][NextFaults]_vars

\* no engine has been built: no roots, no entries, nothing on disk
NoEngine ==
    /\ windows_base = "unset"
    /\ wsl2_base = "unset"
    /\ files = <<>>
    /\ sameRoot = FALSE
    /\ src = EmptyTree
    /\ dst = EmptyTree
    /\ keep_files = {}
    /\ faults = NoFaults
    /\ Fresh

\* the texts a root is built from with Path(...)
RawRoots == {"", ".", " ", "/w", "/d/"}

\* what a root of a configuration may be: None, or the path of a text
RootValues == {"None"} \cup {PathStr(raw) : raw \in RawRoots}

\* validate_config(config) has been called on any configuration object
InitValidate ==
    /\ NoEngine
    /\ config \in [windows_base : RootValues, wsl2_base : RootValues,
                   files : Configs]
    /\ pc = "validate_config"
    /\ source_files = <<>>
    /\ dest_files = <<>>
    /\ argv = NoArgs
    /\ config_file = NoFile
    /\ errmsg = ""
    /\ calls = <<>>
    /\ exit_code = NotReturned
    /\ escaped = "none"
    /\ report = NoReport
    /\ call = NoCall

NextValidate == ValidateConfig

SpecValidate == InitValidate /\ [][NextValidate]_vars

MaxLines == 3

\* what a line of a configuration file may be
LineKinds == {"windows_base", "wsl2_base", "files", "comment", "blank"}

\* the entry lists a files block is written from
FileBlocks == {<<>>, <<"a">>, <<"ab/a", "a">>, <<"a", "a">>}

RECURSIVE Quoted(_, _, _)
\* each entry in double quotes, between before and after
Quoted(entries, before, after) ==
    IF entries = <<>> THEN <<>>
    ELSE <<before \o "\"" \o Head(entries) \o "\"" \o after>>
         \o Quoted(Tail(entries), before, after)

\* a files block, on one line or with an entry and a comment per line
FilesBlock(entries, multiline) ==
    IF multiline
    THEN Join(<<"files = [">> \o Quoted(entries, "    ", ",  # entry") \o <<"]">>, "\n")
    ELSE "files = [" \o Join(Quoted(entries, "", ""), ", ") \o "]"

\* the text of a line of the given kind
LineText(kind, entries, multiline) ==
    CASE kind = "windows_base" -> "windows_base = /w"
      [] kind = "wsl2_base" -> "wsl2_base = /d/  # WSL side"
      [] kind = "files" -> FilesBlock(entries, multiline)
      [] kind = "comment" -> "# windows_base = /x and files = [\"zz\"]"
      [] kind = "blank" -> "  "

\* the configuration file made of the given lines
FileOf(lines, entries, multiline) ==
    [exists |-> TRUE,
     text |-> Join([i \in 1..Len(lines) |-> LineText(lines[i], entries, multiline)], "\n"),
     written |-> [lines |-> lines, entries |-> entries, multiline |-> multiline]]

\* the configuration files: none, or any lines in any order
ConfigFiles ==
    {NoFile} \cup
    {FileOf(lines, entries, multiline) :
        lines \in UNION {[1..n -> LineKinds] : n \in 0..MaxLines},
        entries \in FileBlocks,
        multiline \in BOOLEAN}

\* parse_config(config_path) has been called on any configuration file
InitParse ==
    /\ NoEngine
    /\ config_file \in ConfigFiles
    /\ config = NoConfig
    /\ pc = "parse_config"
    /\ source_files = <<>>
    /\ dest_files = <<>>
    /\ argv = NoArgs
    /\ errmsg = ""
    /\ calls = <<>>
    /\ exit_code = NotReturned
    /\ escaped = "none"
    /\ report = NoReport
    /\ call = NoCall

NextParse == ParseConfig

SpecParse == InitParse /\ [][NextParse]_vars

MaxPathLen == 3

\* the components a path is written with
PathComponents == {"p", "s", ".", ".."}

\* the component sequences of the paths and of the base directories
PathTexts == UNION {[1..n -> PathComponents] : n \in 0..MaxPathLen}
BaseTexts == {<<>>, <<"p">>, <<"h", "p">>, <<"h", "p", "..">>, <<"..", "h", ".", "p">>}

\* is_path_safe(path, base_path) has been called on any path and base
InitSafe ==
    /\ NoEngine
    /\ \E abs, base_abs \in BOOLEAN, components \in PathTexts, base \in BaseTexts :
          call = [path |-> PurePath(abs, components),
                  base_path |-> PurePath(base_abs, base),
                  result |-> "none",
                  written |-> [abs |-> abs, components |-> components,
                               base_abs |-> base_abs, base |-> base]]
    /\ pc = "is_path_safe"
    /\ source_files = <<>>
    /\ dest_files = <<>>
    /\ argv = NoArgs
    /\ config_file = NoFile
    /\ config = NoConfig
    /\ errmsg = ""
    /\ calls = <<>>
    /\ exit_code = NotReturned
    /\ escaped = "none"
    /\ report = NoReport

NextSafe == IsPathSafe

SpecSafe == InitSafe /\ [][NextSafe]_vars

\* the command lines: one parse_args cannot use, or any setting of the flags
CommandLines ==
    {[ok |-> FALSE, version |-> FALSE, validate_config |-> FALSE, dry_run |-> FALSE]}
    \cup [ok : {TRUE}, version : BOOLEAN, validate_config : BOOLEAN,
          dry_run : BOOLEAN]

\* the configuration files main is run on: none, an empty one, one without
\* wsl2_base, and one for every entry list
MainFiles ==
    {NoFile, FileOf(<<>>, <<>>, FALSE), FileOf(<<"windows_base", "files">>, <<"a">>, FALSE)}
    \cup {FileOf(<<"windows_base", "wsl2_base", "files">>, entries, FALSE) :
            entries \in Configs}

\* a source and a destination for the runs that never get to an engine
SampleSource == (<<"a">> :> "src") @@ (<<"ab">> :> "dir")
SampleDest == (<<"a">> :> "old") @@ (<<"ab">> :> "dir") @@ (<<"ab", "a">> :> "old")

\* the command line and the configuration file lead run_sync to an engine
ReachesEngine(a, file) ==
    a.ok /\ ~a.version /\ ~a.validate_config /\ LoadConfig(file).err = "none"

\* the trees under a root of main(): every tree for a dry run, one for a
\* sync, whose behaviour on every tree Spec covers
TreesUnder(a, root, trees, sample) ==
    IF a.dry_run THEN TreesOf(root, trees) ELSE TreesOf(root, {sample})

\* main(args) has been called: any command line, any configuration file, the
\* roots it names being anything on disk
InitMain ==
    /\ argv \in CommandLines
    /\ config_file \in MainFiles
    /\ sameRoot = FALSE
    /\ files = <<>>
    /\ IF ReachesEngine(argv, config_file)
       THEN /\ windows_base \in RootKinds \ {"unset"}
            /\ wsl2_base \in RootKinds \ {"unset"}
            /\ src \in TreesUnder(argv, windows_base, SourceTrees, SampleSource)
            /\ dst \in TreesUnder(argv, wsl2_base, DestTrees, SampleDest)
       ELSE /\ windows_base = "dir"
            /\ wsl2_base = "dir"
            /\ src = SampleSource
            /\ dst = SampleDest
    /\ pc = "main"
    /\ keep_files = {}
    /\ Fresh
    /\ faults = NoFaults
    /\ source_files = <<>>
    /\ dest_files = <<>>
    /\ config = NoConfig
    /\ errmsg = ""
    /\ calls = <<>>
    /\ exit_code = NotReturned
    /\ escaped = "none"
    /\ report = NoReport
    /\ call = NoCall

NextMain ==
    \/ Main
    \/ ValidateConfigCommand
    \/ RunSync
    \/ DryRun
    \/ ValidatePaths
    \/ CopyFiles
    \/ CleanupDestination
    \/ RunSyncReturn

SpecMain == InitMain /\ [][NextMain]_vars

\* sync() has been called on two distinct directories, every entry being
\* there in the source, while another process is at work under dest_root
InitInterleaved ==
    /\ windows_base = "dir"
    /\ wsl2_base = "dir"
    /\ files \in Configs
    /\ sameRoot = FALSE
    /\ src \in SourceTrees
    /\ \A i \in 1..Len(files) : Exists(src, ParseParts(files[i]))
    /\ dst \in DestTrees
    /\ pc = "validate"
    /\ keep_files = {}
    /\ Fresh
    /\ faults = NoFaults
    /\ Idle

NextInterleaved ==
    ValidatePaths \/ CopyFiles \/ CleanupDestination \/ OtherActorWrites

SpecInterleaved == InitInterleaved /\ [][NextInterleaved]_vars

\* entry strings validate_config accepts that are not the plain relative path
\* of what they name: a "." component, a ".." component inside the root, a
\* ".." component leading out of it, an absolute path
EntryStringsAsWritten == {"./a", "a/../ab", "../w/a", "/w/a"}

ConfigsAsWritten == UNION {[1..n -> EntryStringsAsWritten] : n \in 0..MaxEntries}

\* sync() has been called on two distinct directories lying side by side, the
\* entries being written in any of these ways
InitAsWritten ==
    /\ windows_base = "dir"
    /\ wsl2_base = "dir"
    /\ files \in ConfigsAsWritten
    /\ sameRoot = FALSE
    /\ src \in SourceTrees
    /\ dst \in DestTrees
    /\ pc = "validate"
    /\ keep_files = {}
    /\ Fresh
    /\ faults = NoFaults
    /\ Idle

\* what the file system may refuse during a copy: nothing, or one thing: a
\* source path the process may not read, or a destination directory that
\* takes and gives up no entry (dest_root, or a directory that holds
\* something: rmtree cannot remove it, so the path stays that directory)
CopyFaultsOf(s, t) ==
    {NoFaults}
    \cup {[NoFaults EXCEPT !.unreadable = {p}] : p \in DOMAIN s}
    \cup {[NoFaults EXCEPT !.readonly = {d}]
            : d \in {x \in Dirs(t) : Children(t, x) # {}} \cup {<<>>}}

\* copy_files() has been called on its own on two distinct directories, every
\* entry being there in the source, where the file system refuses something
InitCopyFaults ==
    /\ windows_base = "dir"
    /\ wsl2_base = "dir"
    /\ files \in Configs
    /\ sameRoot = FALSE
    /\ src \in SourceTrees
    /\ \A i \in 1..Len(files) : Exists(src, ParseParts(files[i]))
    /\ dst \in DestTrees
    /\ faults \in CopyFaultsOf(src, dst)
    /\ pc = "copy"
    /\ keep_files = {}
    /\ Fresh
    /\ Idle

NextCopyFaults == CopyFiles

SpecCopyFaults == InitCopyFaults /\ [][NextCopyFaults]_vars

\* the paths create_directory_structure is called with: dest_root joined with
\* an entry string
FilePaths ==
    {Slash(Wsl2Base(FALSE), ParseParts(e))
       : e \in EntryStrings \cup EntryStringsAsWritten \cup {"a/a/a"}}

\* what the file system may refuse while directories are made: nothing, or
\* one thing: a destination directory that takes no entry, or one whose mode
\* the process may not change
CreateFaultsOf(t) ==
    {NoFaults}
    \cup {[NoFaults EXCEPT !.readonly = {d}] : d \in Dirs(t) \cup {<<>>}}
    \cup {[NoFaults EXCEPT !.foreign = {d}] : d \in Dirs(t)}

\* create_directory_structure(file_path) has been called on its own, on any
\* destination tree beside an empty source root
InitCreate ==
    /\ windows_base = "dir"
    /\ wsl2_base = "dir"
    /\ files = <<>>
    /\ sameRoot = FALSE
    /\ src = EmptyTree
    /\ dst \in DestTrees
    /\ faults \in CreateFaultsOf(dst)
    /\ pc = "create_directory_structure"
    /\ keep_files = {}
    /\ Fresh
    /\ source_files = <<>>
    /\ dest_files = <<>>
    /\ argv = NoArgs
    /\ config_file = NoFile
    /\ config = NoConfig
    /\ errmsg = ""
    /\ calls = <<>>
    /\ exit_code = NotReturned
    /\ escaped = "none"
    /\ report = NoReport
    /\ \E file_path \in FilePaths :
          call = [NoCall EXCEPT !.path = [parts |-> file_path, abs |-> TRUE]]

NextCreate == CreateDirectoryStructure \/ CreateAgain

SpecCreate == InitCreate /\ [][NextCreate]_vars

Next == ValidatePaths \/ CopyFiles \/ CleanupDestination

SpecAsWritten == InitAsWritten /\ [][Next]_vars

Spec == Init /\ [][Next]_vars

NextTwice == ValidatePaths \/ CopyFiles \/ CleanupDestination \/ SyncAgain

SpecTwice == Init /\ [][NextTwice]_vars

NextCleanup == CleanupDestination

SpecCleanup == InitCleanup /\ [][NextCleanup]_vars

----------------------------------------------------------------------------
(* Properties *)

\* sync() returned normally / the call is over
Returned == pc = "done"
Over == pc \in {"done", "failed"}

\* the "/"-separated components of an entry string, as written
Components(entry) == SplitFrom(entry, 1, "")

\* rel is the entry or lies below it, component by component
NestedUnder(rel, entry) == IsPrefix(Components(entry), rel)

CoveredByEntry(rel) == \E i \in 1..Len(files) : NestedUnder(rel, files[i])

\* the regular files an entry denotes in the source tree s
Expansion(s, entry) ==
    LET p == Components(entry)
    IN  IF IsFile(s, p) THEN {p} ELSE {q \in Under(s, p) : IsFile(s, q)}

ExpansionOfAll(s) == UNION {Expansion(s, files[i]) : i \in 1..Len(files)}

AllEntriesExist == \A i \in 1..Len(files) : Exists(src0, Components(files[i]))

EmptyDirs(t) == {d \in DOMAIN t : t[d] = "dir" /\ Children(t, d) = {}}

\* C1 (as claimed): whenever sync() returns on a configuration all of whose
\* entries exist in the source, the regular files under dest_root are exactly
\* the expansion of the entries against source_root.
C1_Completeness ==
    (Returned /\ AllEntriesExist) => Files(dst) = ExpansionOfAll(src0)

\* C2 (as claimed): when cleanup_destination returns, no directory strictly
\* under dest_root is empty.
C2_NoEmptyDirectories ==
    (Returned /\ wsl2_base = "dir") => EmptyDirs(dst) = {}

\* C3: a regular file that was under dest_root before sync() at a path that is
\* neither an entry nor nested under one is gone once sync() has returned.
C3_StaleFilesRemoved ==
    Returned =>
        \A p \in Files(dst0) : ~CoveredByEntry(p) => p \notin DOMAIN dst

\* C3 witness: a sync that copied something has returned, and the destination
\* held a stale file beside a file that an entry covers
C3_Witness ==
    /\ Returned
    /\ copied_files # <<>>
    /\ \E p \in Files(dst0) : ~CoveredByEntry(p)
    /\ \E p \in Files(dst0) : CoveredByEntry(p)

\* C4: once a second sync(), started right after a first one returned, is over
\* the regular files under dest_root are those the first run left.
C4_Idempotent ==
    (run = "second" /\ Over) => Files(dst) = after1

\* C4 witness: the second run has returned, it copied and the first run had
\* both copied and deleted
C4_Witness ==
    /\ run = "second"
    /\ Returned
    /\ copied_files # <<>>
    /\ after1 # {}
    /\ \E p \in Files(src0) : p \notin after1

\* the index of the first entry whose source path does not exist, 0 if none
FirstMissing ==
    LET missing == {i \in 1..Len(files) : ~Exists(src0, Components(files[i]))}
    IN  IF missing = {} THEN 0
        ELSE CHOOSE i \in missing : \A j \in missing : i <= j

\* p is the destination path of entry j, lies below it or is a directory above it
Touches(p, j) ==
    IsPrefix(Components(files[j]), p) \/ IsPrefix(p, Components(files[j]))

\* what C5 says of a sync whose first missing entry is entry i, the class of
\* the error apart
FailFastFrame(i) ==
    /\ pc = "failed"
    /\ attempted \subseteq 1..i
    /\ \A k \in 1..Len(phases) : phases[k].name # "cleanup"
    /\ \A e \in log : \E j \in 1..(i - 1) : Touches(e.path, j)
    /\ \A p \in DOMAIN dst0 \cup DOMAIN dst :
          (~\E j \in 1..(i - 1) : Touches(p, j)) =>
              (p \in DOMAIN dst /\ p \in DOMAIN dst0 /\ dst[p] = dst0[p])
    /\ (i = 1 => dst = dst0)

\* C5 (as claimed, for roots that validate): when entries[i] is the first
\* missing entry sync() raises a not-found error, looks at no later entry,
\* changes only what entries before i change and runs no cleanup.
C5_Original ==
    (Over /\ windows_base = "dir" /\ wsl2_base = "dir" /\ FirstMissing # 0) =>
        (err = "FileNotFoundError" /\ FailFastFrame(FirstMissing))

\* C5 (amended): when entries[i] is the first missing entry sync() raises, looks
\* at no later entry, changes only what entries before i change and runs no
\* cleanup; the error is a not-found error provided validate_paths succeeded
\* and the loop of copy_files got to entry i, that is no earlier entry failed.
C5_FailFast ==
    (Over /\ FirstMissing # 0) =>
        /\ FailFastFrame(FirstMissing)
        /\ (Len(phases) > 1 /\ idx = FirstMissing) => err = "FileNotFoundError"

\* C5 witness: the second entry is the first missing one, copy_files raised
\* not-found there after copying the first, and a stale file is still in place
C5_Witness ==
    /\ pc = "failed"
    /\ FirstMissing > 1
    /\ idx = FirstMissing
    /\ err = "FileNotFoundError"
    /\ \E e \in log : e.op = "write"
    /\ \E p \in Files(dst0) : ~CoveredByEntry(p) /\ p \in Files(dst)

PhaseOrder == <<"validate", "copy", "cleanup">>

\* C6: the phases of sync() run in the order validate, copy, cleanup, each at
\* most once and only after the ones before it returned; the exception sync()
\* raises is the one its last phase raised; only a phase that was entered
\* changes the file system; a failed validation leaves both trees as they were.
C6_PhaseOrdering ==
    /\ Len(phases) <= Len(PhaseOrder)
    /\ \A k \in 1..Len(phases) : phases[k].name = PhaseOrder[k]
    /\ \A k \in 1..(Len(phases) - 1) : phases[k].err = "none"
    /\ \A e \in log : \E k \in 1..Len(phases) : phases[k].name = e.phase
    /\ pc = "failed" =>
          (phases # <<>> /\ err # "none" /\ err = phases[Len(phases)].err)
    /\ pc = "done" =>
          (Len(phases) = Len(PhaseOrder) /\ err = "none"
           /\ phases[Len(phases)].err = "none")
    /\ (phases # <<>> /\ phases[1].err # "none") =>
          (dst = dst0 /\ src = src0 /\ log = {})

\* C6 witness: copy_files raised after it had changed the destination, and
\* sync() stopped there
C6_Witness ==
    /\ pc = "failed"
    /\ Len(phases) > 1
    /\ log # {}
    /\ dst # dst0

\* C7 (as claimed): sync() changes nothing in the file system unless both roots
\* are existing, accessible directories and distinct.
C7_RootPrecondition ==
    log # {} => (windows_base = "dir" /\ wsl2_base = "dir" /\ ~sameRoot)

\* the outcome C8 gives validate_paths for each pair of roots
ExpectedValidation(wb, w2) ==
    IF wb = "unset" \/ w2 = "unset" THEN "ValueError"
    ELSE IF wb = "missing" \/ w2 = "missing" THEN "FileNotFoundError"
    ELSE IF wb # "dir" \/ w2 # "dir" THEN "PermissionError"
    ELSE "none"

\* C8 (as claimed): validate_paths succeeds only on two roots that are set,
\* exist and can be listed, raises a configuration error when one is unset, a
\* not-found error when one does not exist, a permission error when one exists
\* and cannot be listed, nothing else, and changes nothing.
C8_ValidateOutcomes ==
    phases # <<>> =>
        /\ phases[1].err = ExpectedValidation(windows_base, wsl2_base)
        /\ Len(phases) = 1 => (dst = dst0 /\ src = src0 /\ log = {})

\* what cleanup_destination is to leave of the files that were there
KeptByCleanup == {f \in Files(dst0) : f \in keep_files \/ CoveredByEntry(f)}

\* C9: cleanup_destination(keep) deletes exactly the regular files that are
\* neither in keep nor at or below an entry (whole components), leaves the
\* others as they were, and returns each deleted path once.
C9_CleanupExact ==
    (Returned /\ Len(phases) = 1) =>
        /\ Files(dst) = KeptByCleanup
        /\ \A f \in KeptByCleanup : dst[f] = dst0[f]
        /\ Range(deleted_files) = Files(dst0) \ KeptByCleanup
        /\ Len(deleted_files) = Cardinality(Files(dst0) \ KeptByCleanup)

\* C9 witness: with the entry "a", the file ab/a beside it was deleted while
\* a/a, which is not in keep, was kept
C9_Witness ==
    /\ Returned
    /\ Len(phases) = 1
    /\ files = <<"a">>
    /\ keep_files = {}
    /\ <<"ab", "a">> \in Range(deleted_files)
    /\ <<"a", "a">> \in Files(dst)

CopyReturned == Len(phases) > 1 /\ phases[2].err = "none"

\* the paths copy_files() wrote a regular file at
Written == {e.path : e \in {x \in log : x.phase = "copy" /\ x.op = "write"}}

RECURSIVE SegmentStart(_)
\* how many paths the entries before entry i account for
SegmentStart(i) ==
    IF i = 1 THEN 0
    ELSE SegmentStart(i - 1) + Cardinality(Expansion(src0, files[i - 1]))

\* C11 (as claimed): the list copy_files() returns is the list of the paths it
\* wrote: entry by entry in configuration order, the destination path of a
\* file entry or each regular file of the copied subtree once, the paths of an
\* entry before those of every later entry, and one element per entry when
\* all entries are files.
C11_ReturnedList ==
    CopyReturned =>
        /\ Len(copied_files) = SegmentStart(Len(files) + 1)
        /\ \A i \in 1..Len(files) :
              {copied_files[k] : k \in (SegmentStart(i) + 1)..SegmentStart(i + 1)}
                  = Expansion(src0, files[i])
        /\ (\A i \in 1..Len(files) : IsFile(src0, Components(files[i])))
              => Len(copied_files) = Len(files)
        /\ Range(copied_files) = Written

\* the regular files below p in t, relative to p
FilesBelow(t, p) ==
    {SubSeq(q, Len(p) + 1, Len(q)) : q \in {r \in Under(t, p) : IsFile(t, r)}}

\* C20: right after copy_files() returned, before any cleanup, the regular
\* files under the destination path of each directory entry are those under
\* its source path, whatever the order of the entries and whether or not they
\* overlap.
C20_DirectoryReplaced ==
    pc = "cleanup" =>
        \A i \in 1..Len(files) :
            IsDir(src0, Components(files[i])) =>
                /\ IsDir(dst, Components(files[i]))
                /\ FilesBelow(dst, Components(files[i]))
                       = FilesBelow(src0, Components(files[i]))

\* C20 witness: copy_files() has returned on two overlapping entries, one of
\* them a directory whose destination held a file the source does not have
C20_Witness ==
    /\ pc = "cleanup"
    /\ Len(files) = 2
    /\ \E i \in 1..2 :
          /\ IsDir(src0, Components(files[i]))
          /\ NestedUnder(Components(files[3 - i]), files[i])
          /\ files[1] # files[2]
          /\ \E q \in Files(dst0) :
                /\ NestedUnder(q, files[i])
                /\ q \notin Files(src0)

\* the entries that exist in the source tree, in configuration order
ExistingEntries == SelectSeq(files, LAMBDA e : Exists(src0, Components(e)))

\* C12 (as claimed): get_source_files() raises only when source_root is unset
\* or missing; otherwise it returns the regular files that the existing
\* entries denote, a missing entry adding nothing; it changes neither tree.
C12_SourceFilesTolerant ==
    (Over /\ calls = <<"get_source_files">>) =>
        /\ err # "none" => windows_base \in {"unset", "missing"}
        /\ err = "none" =>
              Range(source_files)
                  = UNION {Expansion(src0, e) : e \in Range(ExistingEntries)}
        /\ windows_base \in {"unset", "missing"} => err # "none"
        /\ src = src0 /\ dst = dst0 /\ log = {}

\* the files cleanup_destination is to delete, in the order it comes to them
DeletionCandidates ==
    SelectSeq(get_destination_files(dst0),
              LAMBDA f : ~(f \in keep_files \/ CoveredByEntry(f)))

\* the position in DeletionCandidates of the first file whose unlink() the
\* file system refuses, 0 if it refuses none
FirstRefused ==
    LET refused == {k \in 1..Len(DeletionCandidates) :
                        DeletionCandidates[k] \in DOMAIN faults.unlink}
    IN  IF refused = {} THEN 0
        ELSE CHOOSE k \in refused : \A j \in refused : k <= j

\* cleanup_destination was called on its own and is over
CleanupOver == Over /\ Len(phases) = 1 /\ phases[1].name = "cleanup"

\* C18 (as claimed): when every file deletion succeeds cleanup_destination
\* returns the list of the files it deleted, whatever the file system refuses
\* while the empty directories are looked for and removed.
C18_PruningNeverBlocks ==
    (CleanupOver /\ FirstRefused = 0) =>
        /\ pc = "done"
        /\ err = "none"
        /\ deleted_files = DeletionCandidates

\* C19: when the file system refuses to delete a file, cleanup_destination
\* raises at that file, a permission error if access was denied and the generic
\* error otherwise; the files it came to before are deleted, every other file
\* is as it was, and no directory has been removed.
C19_DeletionFailureAborts ==
    (CleanupOver /\ FirstRefused # 0) =>
        /\ pc = "failed"
        /\ err = (IF faults.unlink[DeletionCandidates[FirstRefused]] = "PermissionError"
                  THEN "PermissionError" ELSE "OSError")
        /\ deleted_files = SubSeq(DeletionCandidates, 1, FirstRefused - 1)
        /\ Files(dst) = Files(dst0) \ Range(deleted_files)
        /\ \A f \in Files(dst) : dst[f] = dst0[f]
        /\ Dirs(dst) = Dirs(dst0)
        /\ \A e \in log : e.op = "unlink" /\ e.path \in Range(deleted_files)

\* C19 witness: the second file could not be deleted for another reason than
\* access rights: the first is gone, the second is there, and the directory
\* the first was in is left empty
C19_Witness ==
    /\ CleanupOver
    /\ FirstRefused = 2
    /\ err = "OSError"
    /\ Len(deleted_files) = 1
    /\ DeletionCandidates[2] \in Files(dst)
    /\ EmptyDirs(dst) # {}
    /\ EmptyDirs(dst0) = {}

\* the root is the path of the empty text, or blank
EmptyRoot(p) == p = PathStr("") \/ \A i \in 1..Len(p) : SubSeq(p, i, i) = " "

\* the conditions of C14 that a configuration violates, each by the word that
\* names it
Violations(cfg) ==
    {w \in {"windows_base", "wsl2_base", "files", "path", "duplicate"} :
        \/ w = "windows_base" /\ cfg.windows_base = "None"
        \/ w = "wsl2_base" /\ cfg.wsl2_base = "None"
        \/ w = "files" /\ cfg.files = <<>>
        \/ w = "path" /\ \/ cfg.windows_base # "None" /\ EmptyRoot(cfg.windows_base)
                         \/ cfg.wsl2_base # "None" /\ EmptyRoot(cfg.wsl2_base)
        \/ w = "duplicate" /\ \E i, j \in 1..Len(cfg.files) :
                                  i # j /\ cfg.files[i] = cfg.files[j]}

\* validate_config was called on its own and is over
ValidateOver == Over /\ calls = <<"validate_config">>

\* C14: validate_config returns True exactly on a configuration with both
\* roots set and not empty, a non-empty entry list and no repeated entry;
\* otherwise it raises a validation error whose message names a condition the
\* configuration violates; the configuration is as it was.
C14_ValidateConfig ==
    [][pc = "validate_config" =>
        /\ pc' = "done" <=> Violations(config) = {}
        /\ pc' # "done" =>
              /\ pc' = "failed"
              /\ err' = "ValueError"
              /\ \E w \in Violations(config) : Contains(Lower(errmsg'), w)
        /\ config' = config]_vars

\* C14 witness: a configuration whose only defect is a repeated entry was
\* rejected with a message that says so
C14_Witness ==
    /\ ValidateOver
    /\ pc = "failed"
    /\ Violations(config) = {"duplicate"}
    /\ Contains(Lower(errmsg), "duplicate")

\* parse_config was called on its own and is over
ParseOver == Over /\ calls = <<"parse_config">>

ConfigKeys == <<"windows_base", "wsl2_base", "files">>

\* the file has a line for the key
HasKey(key) ==
    \E i \in 1..Len(config_file.written.lines) : config_file.written.lines[i] = key

\* the first of the keys, in the order of ConfigKeys, the file has no line for
FirstMissingKey ==
    LET missing == {k \in 1..Len(ConfigKeys) : ~HasKey(ConfigKeys[k])}
    IN  IF missing = {} THEN "none"
        ELSE ConfigKeys[CHOOSE k \in missing : \A j \in missing : k <= j]

\* the file has nothing but blank lines
EmptyWhenTrimmed ==
    \A i \in 1..Len(config_file.written.lines) :
        config_file.written.lines[i] = "blank"

ParseFailedWith(class) == pc = "failed" /\ err = class /\ config = NoConfig

\* C17: parse_config raises a not-found error when there is no file, a format
\* error when the file is empty once trimmed, a format error naming the first
\* of windows_base, wsl2_base, files that the file has no line for; it returns
\* no configuration then; when it returns one, the entries are the quoted
\* strings of the files block in their order.
C17_ParseOutcomes ==
    ParseOver =>
        /\ ~config_file.exists => ParseFailedWith("FileNotFoundError")
        /\ (config_file.exists /\ EmptyWhenTrimmed) =>
              (ParseFailedWith("ValueError") /\ Contains(errmsg, "empty"))
        /\ (config_file.exists /\ ~EmptyWhenTrimmed /\ FirstMissingKey # "none") =>
              /\ ParseFailedWith("ValueError")
              /\ \A k \in 1..Len(ConfigKeys) :
                    Contains(errmsg, ConfigKeys[k]) <=> ConfigKeys[k] = FirstMissingKey
        /\ (config_file.exists /\ FirstMissingKey = "none") =>
              (pc = "done" /\ config.files = config_file.written.entries)

\* C17 witness: a file with the keys out of order, comments at the end of lines
\* and a files block of several lines was parsed, its two entries in order
C17_Witness ==
    /\ ParseOver
    /\ pc = "done"
    /\ config_file.written.multiline
    /\ config_file.written.lines = <<"files", "wsl2_base", "windows_base">>
    /\ config.files = <<"ab/a", "a">>

\* the directory reached from the directory at by one component
Step(at, component) ==
    CASE component = "." -> at
      [] component = ".." -> IF at = <<>> THEN at ELSE Parent(at)
      [] OTHER -> Append(at, component)

RECURSIVE Walk(_, _)
\* the directory reached from the directory at by the components in turn
Walk(at, components) ==
    IF components = <<>> THEN at
    ELSE Walk(Step(at, Head(components)), Tail(components))

\* where the base directory of the call is, and where its path leads
BaseDirectory ==
    Walk(IF call.written.base_abs THEN <<>> ELSE Cwd, call.written.base)
Destination ==
    Walk(IF call.written.abs THEN <<>> ELSE BaseDirectory, call.written.components)

\* is_path_safe was called and is over
SafeOver == pc = "done" /\ calls = <<"is_path_safe">>

\* C16: is_path_safe(p, base) returns true exactly when p, taken from base
\* when it is relative, leads to base or to somewhere below base, false
\* otherwise, and raises nothing.
C16_Containment ==
    SafeOver =>
        /\ call.result \in {"True", "False"}
        /\ call.result = "True" <=> IsPrefix(BaseDirectory, Destination)

\* C16 witness: a relative path that leaves the base through ".." and comes
\* back into it by name was answered true
C16_Witness ==
    /\ SafeOver
    /\ call.written.components = <<"..", "p", "s">>
    /\ ~call.written.abs
    /\ call.written.base = <<"h", "p">>
    /\ call.result = "True"

\* main(args) is over: it returned or an exception left it
Exited == pc = "exited"

\* the methods of the engine that change the file system
MutatingCalls == {"sync", "copy_files", "cleanup_destination"}

\* run_sync is to be, or has been, called with dry_run = True
IsDryRun == argv.ok /\ ~argv.version /\ ~argv.validate_config /\ argv.dry_run

\* C13: in a dry run no method of the engine is called but get_source_files
\* and get_destination_files, no phase of sync() is entered, and both trees
\* are at every moment what they were, however the run ends.
C13_DryRunReadOnly ==
    IsDryRun =>
        /\ \A k \in 1..Len(calls) : calls[k] \notin MutatingCalls
        /\ phases = <<>>
        /\ log = {}
        /\ src = src0
        /\ dst = dst0
        /\ pc \notin {"validate", "copy", "cleanup", "done", "failed"}

\* C13 witness: a dry run ended with both listings made, files to copy and
\* files to delete reported, on trees that a sync would have changed
C13_Witness ==
    /\ IsDryRun
    /\ Exited
    /\ exit_code = <<0>>
    /\ calls[Len(calls)] = "get_destination_files"
    /\ report.copy # <<>>
    /\ report.delete # <<>>

\* C15 (as claimed): main() returns, whatever happens below it: 0 when the
\* command it selected ended without an exception, a non-zero code when one
\* was raised; nothing leaves main() as an exception.
C15_ExitStatus ==
    Exited =>
        /\ escaped = "none"
        /\ exit_code \in {<<0>>, <<1>>}
        /\ exit_code = <<0>> <=> err = "none"

\* C21 (as claimed): once sync() has returned, every regular file under
\* dest_root holds the content and modification time of the regular file at
\* the same relative path under source_root, whether or not it was there
\* before with other content.
C21_ContentOverwrite ==
    Returned =>
        \A p \in Files(dst) : IsFile(src0, p) /\ dst[p] = src0[p]

\* C27 (as claimed): when copy_files() returns, every path in the list it
\* returns is an existing regular file under dest_root that this call wrote,
\* whatever the destination held before.
C27_ReturnedPathsAreFiles ==
    pc = "cleanup" =>
        \A k \in 1..Len(copied_files) :
            /\ IsFile(dst, copied_files[k])
            /\ copied_files[k] \in Written

\* the paths get_source_files() returns on the source tree the call started on
Reported == Range(get_source_files(windows_base, files, src0, dst0, sameRoot, TRUE).files)

\* C30: when every entry exists and copy_files() returned, the paths it
\* returned, relative to dest_root, are the paths get_source_files() returns
\* on the same source tree, relative to source_root.
C30_SameExpansion ==
    (CopyReturned /\ AllEntriesExist) => Range(copied_files) = Reported

\* C30 witness: copy_files() returned on a file entry and a directory entry
\* with files in it, the destination having held a file under that directory
C30_Witness ==
    /\ CopyReturned
    /\ AllEntriesExist
    /\ \E i, j \in 1..Len(files) :
          /\ IsFile(src0, Components(files[i]))
          /\ IsDir(src0, Components(files[j]))
          /\ FilesBelow(src0, Components(files[j])) # {}
          /\ \E q \in Files(dst0) : NestedUnder(q, files[j])

\* the calls that load or use a configuration
ConfigCalls ==
    {"validate_config_command", "run_sync", "parse_config", "validate_config",
     "WSLSyncEngine", "sync", "get_source_files", "get_destination_files"}

\* the calls of the sync command and of the engine
EngineCalls ==
    {"run_sync", "WSLSyncEngine", "sync", "get_source_files",
     "get_destination_files"}

Called(name) == \E k \in 1..Len(calls) : calls[k] = name

\* C24: with the version flag main() shows the version and returns 0, and
\* nothing that loads or uses a configuration is called, whatever the other
\* flags; else with the validate-config flag only the validate command runs
\* and no engine is built; run_sync is called only when neither flag is set,
\* and it builds the engine only right after parse_config and validate_config,
\* both having succeeded.
C24_CommandPrecedence ==
    /\ (argv.ok /\ argv.version) =>
          /\ \A k \in 1..Len(calls) : calls[k] \notin ConfigCalls
          /\ config = NoConfig /\ phases = <<>> /\ report = NoReport
          /\ Exited => (exit_code = <<0>> /\ Called("show_version"))
    /\ (argv.ok /\ ~argv.version /\ argv.validate_config) =>
          /\ \A k \in 1..Len(calls) : calls[k] \notin EngineCalls \cup {"show_version"}
          /\ phases = <<>> /\ report = NoReport /\ dst = dst0
          /\ Exited => Called("validate_config_command")
    /\ Called("run_sync") => (~argv.version /\ ~argv.validate_config)
    /\ \A k \in 1..Len(calls) :
          calls[k] = "WSLSyncEngine" =>
              /\ k > 2
              /\ calls[k - 2] = "parse_config"
              /\ calls[k - 1] = "validate_config"
              /\ config # NoConfig
              /\ validate_config(config).err = "none"
    /\ (phases # <<>> \/ report # NoReport) => Called("WSLSyncEngine")

\* C24 witness: main() returned 0 on a command line with the version flag and
\* both other flags, a configuration file being there
C24_Witness ==
    /\ Exited
    /\ argv.version /\ argv.validate_config /\ argv.dry_run
    /\ config_file.exists
    /\ exit_code = <<0>>
    /\ calls = <<"parse_args", "show_version">>

\* the regular files written under dest_root since sync() was called, by
\* copy_files or by another process
WrittenSince == {e.path : e \in {x \in log : x.op = "write"}}

\* the regular files cleanup_destination has to delete from the tree t
ToDelete(t) == {f \in Files(t) : f \notin keep_files /\ ~CoveredByEntry(f)}

\* C25: the files cleanup_destination works on are those under dest_root at
\* the moment it starts: it deletes exactly the ones among them that are
\* neither in keep nor covered by an entry, so a file written after sync()
\* was called, by the copy phase or by another process, that is neither kept
\* nor covered is deleted by this sync().
C25_CleanupReadsFresh ==
    [][(pc = "cleanup" /\ pc' # "cleanup") =>
          /\ Range(deleted_files') = ToDelete(dst)
          /\ Files(dst') = Files(dst) \ ToDelete(dst)
          /\ \A p \in WrittenSince \cap ToDelete(dst) :
                p \in Range(deleted_files') /\ p \notin DOMAIN dst']_vars

\* C25 witness: sync() returned after it had copied something and had deleted
\* a file that another process wrote, after sync() was called, at a path where
\* nothing was before
C25_Witness ==
    /\ Returned
    /\ copied_files # <<>>
    /\ \E e \in log :
          /\ e.phase = "other"
          /\ e.path \notin DOMAIN dst0
          /\ e.path \in Range(deleted_files)
          /\ e.path \notin DOMAIN dst

\* C28 (as claimed): within one sync() call no file the copy phase wrote is
\* deleted by the cleanup phase, however the entry strings are written.
C28_CopiedFilesSurvive ==
    \A e \in log : (e.phase = "cleanup" /\ e.op = "unlink") => e.path \notin Written

\* the places outside dest_root: the engine writes them from "/"
Outside(p) == p # <<>> /\ p[1] = "/"

\* C26 (as claimed): every path sync() creates, overwrites, chmods or deletes
\* lies under dest_root, also for entries with ".." components and for
\* absolute entries.
C26_MutationsUnderDestRoot ==
    \A e \in log : e.phase \in {"copy", "cleanup"} => ~Outside(e.path)

\* what a dry run on the state sync() started on reports
WouldCopy == Range(get_source_files(windows_base, files, src0, dst0, sameRoot, TRUE).files)
WouldBeDeleted == Range(WouldDelete(DestinationFiles(wsl2_base, dst0).files, files))

\* C29 (as claimed): when sync() returns, the files its cleanup deleted are
\* those a dry run on the same initial state reports as "Would delete", and
\* the files it copied are, by relative path, those reported as "Would copy".
C29_DryRunPredictsSync ==
    Returned => /\ Range(deleted_files) = WouldBeDeleted
                /\ Range(copied_files) = WouldCopy

\* copy_files() was ended by a file-system operation that failed
CopyFailed == pc = "failed" /\ err \in {"PermissionError", "OSError"}

\* the operation that failed is one the file system refused the process
Refused == \E e \in log : e.op = "refused"

\* source_path and dest_path of the entry copy_files() stopped at, as written
\* in a message
FailedSource == Text(Slash(WindowsBase, ParseParts(files[idx])))
FailedDest == Text(Slash(Wsl2Base(sameRoot), ParseParts(files[idx])))

\* C22 (as claimed): when a file-system operation fails while copy_files()
\* processes an entry, it raises a permission error if the cause is access
\* rights and a generic error otherwise, the message names the entry's source
\* and destination paths, no later entry is processed and no list is returned.
C22_CopyFailuresClassified ==
    CopyFailed =>
        /\ err = (IF Refused THEN "PermissionError" ELSE "OSError")
        /\ Contains(errmsg, FailedSource)
        /\ Contains(errmsg, FailedDest)
        /\ attempted = 1..idx
        /\ keep_files = {}

\* the path create_directory_structure was called with, and the directory
\* the roots lie in as it is now
file_path == call.path.parts
Now == World(src, dst, sameRoot)

\* the directories strictly between dest_root and the file: the places of the
\* parents of file_path that lie below dest_root
Between ==
    {d \in {FromDest(Place(Now, parent), sameRoot) : parent \in Parents(file_path)}
       : d # <<>> /\ ~Outside(d)}

\* the directories a call set the mode of
ModeSet(which) == {e.path : e \in {x \in log : x.phase = which /\ x.op = "chmod"}}

\* C23 (as claimed): after create_directory_structure(file_path) returns every
\* ancestor directory of file_path exists; a second call changes nothing and
\* raises nothing; the mode is set on exactly the directories strictly
\* between dest_root and the file, a refused chmod being passed over, and
\* never on dest_root or on a directory above or outside it; a directory that
\* cannot be made is raised as PermissionError or OSError.
C23_IdempotentAndConfined ==
    /\ pc = "done" =>
          /\ \A parent \in Parents(file_path) : IsDirAt(Now, parent)
          /\ ModeSet(run) = {d \in Between : d \notin faults.foreign}
    /\ \A e \in log : e.op = "chmod" => (e.path # <<>> /\ ~Outside(e.path))
    /\ (run = "second" /\ pc # "create_directory_structure") =>
          /\ pc = "done"
          /\ dst = dst0
          /\ src = src0
          /\ ModeSet("second") = ModeSet("first")
    /\ pc = "failed" => err \in {"PermissionError", "OSError"}

====
